---- MODULE Spec2Model ----
(***************************************************************************)
(* State-machine model of the CodeCircle platform orchestrator             *)
(* (src/platform/app): workspace CRUD, the setup wizard, the provisioning  *)
(* orchestrator and the AI configuration store.                            *)
(*                                                                         *)
(* Every HTTP request runs in a process slot p with its own SQLAlchemy     *)
(* session.  A handler is cut into steps at its awaits (database round     *)
(* trips and downstream HTTP calls), the only points where the event loop  *)
(* can run another request.                                                *)
(*                                                                         *)
(* Conventions.  A Python Optional is a set with at most one element:      *)
(* None is {} and a value v is {v}.  A Python str is a sequence of tokens. *)
(* A downstream identifier as it travels in JSON is a record               *)
(* [form, n]; uuid.UUID(text) keeps n, str(uuid) is the canonical text.    *)
(***************************************************************************)
EXTENDS Integers, Sequences, FiniteSets, TLC

\* ───────────── bounds of the model ─────────────
MaxProcs == 2
MaxRequests == 3
MaxAttempts == 2
MaxSyncRequests == 2
MaxKeyLen == 12

Procs == 1..MaxProcs

\* ───────────── inputs ─────────────
Slugs == {"acme", "beta"}

\* str(e) of the exception a downstream call raises (HTTP status error, transport error)
ErrorTexts == {"status 500", "connect failed"}

\* textual forms in which a service may render a UUID in its JSON answer
UuidForms == {"canon", "upper"}

\* request bodies of the wizard (schemas/workspace.py); credentials are
\* represented by the set of credential keys the body supplies
MetricsConfigs ==
    { [provider |-> "datadog", keys |-> {"api_key", "app_key"}],
      [provider |-> "prometheus", keys |-> {}] }
LogsConfigs == { [provider |-> "splunk_cloud"] }
CodeConfigs == { [repo_path |-> "/srv/repo"] }

\* a credential is a str of characters; the ones the model stores
SkEnv == <<"s", "k", "-", "e", "n", "v">>
SkGlobal == <<"s", "k", "-", "g", "l", "o", "b", "a", "l">>
SkWs == <<"s", "k", "-", "w", "s">>
SkNew == <<"s", "k", "-", "n", "e", "w">>

\* the credentials a caller may store: up to three dots followed by letters
Alphabet == <<"a", "b", "c", "d", "e", "f", "g", "h", "i", "j", "k", "l", "m", "n", "o", "p">>
Keys ==
    { [i \in 1..d |-> "."] \o SubSeq(Alphabet, 1, n) :
        d \in 0..3, n \in 0..(IF MaxKeyLen - 3 < Len(Alphabet) THEN MaxKeyLen - 3
                                                             ELSE Len(Alphabet)) }

\* os.getenv of CLAUDE_API_KEY, CLAUDE_BEDROCK_URL, CLAUDE_MODEL_ID: unset, or all set
Envs ==
    { [CLAUDE_API_KEY |-> {}, CLAUDE_BEDROCK_URL |-> {}, CLAUDE_MODEL_ID |-> {}],
      [CLAUDE_API_KEY |-> {SkEnv}, CLAUDE_BEDROCK_URL |-> {"https://proxy"},
       CLAUDE_MODEL_ID |-> {"m1"}] }

\* ───────────── Python values ─────────────
None == {}
Some(v) == {v}
Truthy(o) == o # {}
The(o) == CHOOSE v \in o : TRUE
\* os.getenv(name, default)
Getenv(o, default) == IF o = {} THEN default ELSE The(o)
Opt(S) == {None} \cup { Some(v) : v \in S }

\* s[-n:] and "needle in hay" of Python
Last(s, n) == SubSeq(s, (IF Len(s) > n THEN Len(s) - n ELSE 0) + 1, Len(s))
Contains(hay, needle) ==
    \E i \in 0..Len(hay) : i + Len(needle) <= Len(hay) /\ SubSeq(hay, i + 1, i + Len(needle)) = needle

UUID(text) == text.n
Str(uuid) == [form |-> "canon", n |-> uuid]

\* "sep".join(list) over token sequences
RECURSIVE Join(_, _)
Join(sep, list) ==
    IF list = << >> THEN << >>
    ELSE IF Len(list) = 1 THEN list[1]
    ELSE list[1] \o sep \o Join(sep, Tail(list))

VARIABLES
    workspaces,     \* table "workspaces": a set of rows
    ai_config,      \* table "ai_config": a set of rows
    global_key,     \* whether the partial unique index ai_config_global_key exists
    env,            \* environment variables of the server process
    next_id,        \* primary keys handed out so far (uuid4 is fresh)
    orgs,           \* downstream services: organizations created, per service
    repos,          \* code parser: repositories submitted
    held,           \* downstream services: the configuration each organization holds
    started,        \* requests accepted so far
    attempts,       \* provisioning attempts started so far
    kind,           \* per process: the handler it runs
    pc,             \* per process: the await it is suspended at
    arg,            \* per process: path parameters and body of the request
    obj,            \* per process: the ORM object the session holds (attribute values)
    base,           \* per process: the values the session last loaded or flushed
    pw,             \* per process: locals of provision_workspace
    calls,          \* per process: the downstream HTTP exchanges it made, in order
    resp,           \* per process: the HTTP response of the handler
    tasks           \* per process: BackgroundTasks of the request, run after the response

db == <<workspaces, ai_config, global_key, env, next_id>>
remote == <<orgs, repos, held>>
session == <<obj, base>>
vars == <<workspaces, ai_config, global_key, env, next_id, orgs, repos, held, started,
          attempts, kind, pc, arg, obj, base, pw, calls, resp, tasks>>

\* ───────────── models/workspace.py ─────────────
Services == {"metrics", "logs", "code", "fixai"}

WsColumns ==
    { "id", "slug", "status", "error_message", "llm_provider",
      "metrics_provider", "metrics_credentials_encrypted",
      "logs_provider", "code_repo_path",
      "fixai_org_id", "metrics_org_id", "logs_org_id",
      "code_parser_org_id", "code_parser_repo_id" }

\* Workspace(name=..., slug=..., status=...): every other column is NULL
Workspace(id, slug, status) ==
    [ id |-> id, slug |-> slug, status |-> status, error_message |-> None,
      llm_provider |-> None,
      metrics_provider |-> None, metrics_credentials_encrypted |-> None,
      logs_provider |-> None, code_repo_path |-> None,
      fixai_org_id |-> None, metrics_org_id |-> None, logs_org_id |-> None,
      code_parser_org_id |-> None, code_parser_repo_id |-> None ]

NoObject == [ id |-> 0 ]

\* ───────────── the session (SQLAlchemy unit of work) ─────────────
\* mutant: the existence check finds nothing
SelectBySlugNothing(slug) == {}
SelectBySlug(slug) == { r \in workspaces : r.slug = slug }
Get(id) == { r \in workspaces : r.id = id }

\* the unique constraint on workspaces.slug
SlugTaken(slug) == \E r \in workspaces : r.slug = slug

\* A flush writes, with one UPDATE, the attributes whose value differs from the
\* value the session last loaded or flushed; an unchanged attribute is not sent.
Dirty(o, b) == { c \in WsColumns : o[c] # b[c] }
Updated(row, o, b) == [ c \in WsColumns |-> IF c \in Dirty(o, b) THEN o[c] ELSE row[c] ]

\* ───────────── responses ─────────────
NoResponse == [ code |-> 0, body |-> None ]
Error(code) == [ code |-> code, body |-> None ]
\* mutant: a missing workspace is reported as a server error
NotFoundAsServerError == Error(500)
\* raise HTTPException(status_code=404, detail="Workspace not found")
NotFound == Error(404)
\* status_code=204: no body
NoContent == [ code |-> 204, body |-> None ]
\* api/setup.py _to_response / api/workspaces.py _to_response
ToResponse(code, ws) == [ code |-> code, body |-> Some(ws) ]

NoLocals == [ stage |-> "none" ]

Init ==
    /\ workspaces = {}
    /\ ai_config = {}
    /\ global_key \in BOOLEAN
    /\ env \in Envs
    /\ next_id = 0
    /\ orgs = [ s \in Services |-> 0 ]
    /\ repos = 0
    /\ held = {}
    /\ started = 0
    /\ attempts = 0
    /\ kind = [ p \in Procs |-> "none" ]
    /\ pc = [ p \in Procs |-> "idle" ]
    /\ arg = [ p \in Procs |-> NoLocals ]
    /\ obj = [ p \in Procs |-> NoObject ]
    /\ base = [ p \in Procs |-> NoObject ]
    /\ pw = [ p \in Procs |-> NoLocals ]
    /\ calls = [ p \in Procs |-> << >> ]
    /\ resp = [ p \in Procs |-> NoResponse ]
    /\ tasks = [ p \in Procs |-> << >> ]

\* a database built by create_all on first start, nothing set in the environment
InitFresh ==
    /\ Init
    /\ ~global_key
    /\ env.CLAUDE_API_KEY = {}

\* a request is accepted by an idle slot
Accept(p, k, a) ==
    /\ pc[p] = "idle"
    /\ started < MaxRequests
    /\ started' = started + 1
    /\ kind' = [kind EXCEPT ![p] = k]
    /\ arg' = [arg EXCEPT ![p] = a]

\* the handler returns or raises: the response is sent
Done(p, r) ==
    /\ pc' = [pc EXCEPT ![p] = "done"]
    /\ resp' = [resp EXCEPT ![p] = r]

\* ───────────── api/workspaces.py create_workspace ─────────────
\* select by slug; 409 when a row exists
create_workspace_select(p, slug) ==
    /\ Accept(p, "create_workspace", [slug |-> slug])
    /\ IF SelectBySlug(slug) # {}
         THEN /\ Done(p, Error(409))
              /\ UNCHANGED session
         ELSE /\ pc' = [pc EXCEPT ![p] = "cw_commit"]
              /\ obj' = [obj EXCEPT ![p] = Workspace(0, slug, "active")]
              /\ UNCHANGED <<base, resp>>
    /\ UNCHANGED <<db, remote, attempts, tasks, pw, calls>>

\* db.add(ws); commit; refresh.  The INSERT fails on the unique constraint
\* (IntegrityError, not handled: 500) when the slug was taken meanwhile.
create_workspace_commit(p) ==
    /\ pc[p] = "cw_commit"
    /\ kind[p] = "create_workspace"
    /\ IF SlugTaken(obj[p].slug)
         THEN /\ Done(p, Error(500))
              /\ UNCHANGED <<db, session>>
         ELSE LET row == [obj[p] EXCEPT !.id = next_id + 1] IN
              /\ workspaces' = workspaces \cup {row}
              /\ next_id' = next_id + 1
              /\ obj' = [obj EXCEPT ![p] = row]
              /\ base' = [base EXCEPT ![p] = row]
              /\ Done(p, ToResponse(201, row))
              /\ UNCHANGED <<ai_config, global_key, env>>
    /\ UNCHANGED <<remote, started, attempts, tasks, kind, arg, pw, calls>>

\* ───────────── api/workspaces.py get_workspace, delete_workspace ─────────────
\* the path parameter: the workspaces created so far and one id never handed out
WsIds == 1..MaxRequests

\* db.get; 404 when absent, else the row
get_workspace(p, id) ==
    /\ Accept(p, "get_workspace", [workspace_id |-> id])
    /\ IF Get(id) # {}
         THEN /\ Done(p, ToResponse(200, The(Get(id))))
              /\ obj' = [obj EXCEPT ![p] = The(Get(id))]
              /\ base' = [base EXCEPT ![p] = The(Get(id))]
         ELSE /\ Done(p, NotFound)
              /\ UNCHANGED session
    /\ UNCHANGED <<db, remote, attempts, tasks, pw, calls>>

\* db.get; 404 when absent, else db.delete(ws)
delete_workspace_get(p, id) ==
    /\ Accept(p, "delete_workspace", [workspace_id |-> id])
    /\ IF Get(id) # {}
         THEN /\ pc' = [pc EXCEPT ![p] = "dw_commit"]
              /\ obj' = [obj EXCEPT ![p] = The(Get(id))]
              /\ base' = [base EXCEPT ![p] = The(Get(id))]
              /\ UNCHANGED resp
         ELSE /\ Done(p, NotFound)
              /\ UNCHANGED session
    /\ UNCHANGED <<db, remote, attempts, tasks, pw, calls>>

\* commit: DELETE of the row; the foreign key of ai_config.workspace_id
\* (ON DELETE CASCADE) removes the workspace's AI configuration row with it
delete_workspace_commit(p) ==
    /\ pc[p] = "dw_commit"
    /\ workspaces' = workspaces \ Get(obj[p].id)
    /\ ai_config' = { c \in ai_config : c.workspace_id # Some(obj[p].id) }
    /\ Done(p, NoContent)
    /\ UNCHANGED <<global_key, env, next_id, remote, started, attempts, tasks, kind, arg,
                   session, pw, calls>>

\* ───────────── services/provisioner.py ─────────────
\* answers of a downstream service to one request
Failures(texts) == { [ok |-> FALSE, id |-> None, error |-> Some(e)] : e \in texts }
Created(svc, forms) ==
    { [ok |-> TRUE, id |-> Some([form |-> f, n |-> orgs[svc] + 1]), error |-> None] : f \in forms }
RepoCreated == { [ok |-> TRUE, id |-> Some([form |-> "raw", n |-> repos + 1]), error |-> None] }
Accepted == { [ok |-> TRUE, id |-> None, error |-> None] }

\* one HTTP exchange (_post/_put): request and answer, appended to the process's log
Exchange(p, svc, op, body, r) ==
    calls' = [calls EXCEPT ![p] = Append(@,
                [service |-> svc, op |-> op, body |-> body,
                 ok |-> r.ok, id |-> r.id, error |-> r.error])]

\* the service creates an organization when it answers with success
OrgCreated(svc, r) ==
    orgs' = [orgs EXCEPT ![svc] = IF r.ok THEN @ + 1 ELSE @]

\* mutant: the handler assigns a fresh list instead of appending
CaughtOverwrite(errors, label, e) == << <<label, e>> >>

\* mutant: the exception is swallowed without recording it
CaughtSilently(errors, label, e) == errors

\* except Exception as e: errors.append(f"<Label>: {e}")
Caught(errors, label, e) == Append(errors, <<label, e>>)

\* locals of provision_workspace at entry (lines 198-202)
PwStart(metrics, logs, code) ==
    [ metrics |-> metrics, logs |-> logs, code |-> code,
      errors |-> << >>, org_id |-> None,
      metrics_org_id |-> None, logs_org_id |-> None,
      code_parser_org_id |-> None, code_parser_repo_id |-> None,
      fixai_org_id |-> None ]

\* the next await of provision_workspace: "if metrics:", "if logs:", "if code:"
\* skip a provisioner whose configuration is None; FixAI always runs
AfterCode(l) == "fixai_org"
\* mutant: the code provisioner runs whether or not a configuration was given
AfterLogsAlways(l) == "code_org"
AfterLogs(l) == IF Truthy(l.code) THEN "code_org" ELSE AfterCode(l)
\* mutant: after the metrics provisioner the orchestrator goes straight to FixAI
AfterMetricsAbort(l) == AfterCode(l)
AfterMetrics(l) == IF Truthy(l.logs) THEN "logs_org" ELSE AfterLogs(l)
Entry(l) == IF Truthy(l.metrics) THEN "metrics_org" ELSE AfterMetrics(l)

\* provision_metrics step 1: POST {metrics}/api/v1/organizations
provision_metrics_org(p, r) ==
    /\ pc[p] = "metrics_org"
    /\ Exchange(p, "metrics", "create_org", [slug |-> obj[p].slug], r)
    /\ OrgCreated("metrics", r)
    /\ IF r.ok
         THEN /\ pw' = [pw EXCEPT ![p].org_id = r.id]
              /\ pc' = [pc EXCEPT ![p] = "metrics_provider"]
         ELSE /\ pw' = [pw EXCEPT ![p].errors = Caught(@, "Metrics: ", The(r.error))]
              /\ pc' = [pc EXCEPT ![p] = AfterMetrics(pw[p])]
    /\ UNCHANGED <<db, repos, held, started, attempts, tasks, kind, arg, session, resp>>

\* provision_metrics step 2: POST .../organizations/{org_id}/providers; return UUID(org_id)
provision_metrics_provider(p, r) ==
    /\ pc[p] = "metrics_provider"
    /\ Exchange(p, "metrics", "add_provider",
                [org_id |-> pw[p].org_id, provider_type |-> The(pw[p].metrics).provider], r)
    /\ IF r.ok
         THEN pw' = [pw EXCEPT ![p].metrics_org_id = Some(UUID(The(pw[p].org_id))),
                               ![p].org_id = None]
         ELSE pw' = [pw EXCEPT ![p].errors = Caught(@, "Metrics: ", The(r.error)),
                               ![p].org_id = None]
    /\ pc' = [pc EXCEPT ![p] = AfterMetrics(pw[p])]
    /\ UNCHANGED <<db, remote, started, attempts, tasks, kind, arg, session, resp>>

\* provision_logs step 1: POST {logs}/api/v1/organizations
provision_logs_org(p, r) ==
    /\ pc[p] = "logs_org"
    /\ Exchange(p, "logs", "create_org", [slug |-> obj[p].slug], r)
    /\ OrgCreated("logs", r)
    /\ IF r.ok
         THEN /\ pw' = [pw EXCEPT ![p].org_id = r.id]
              /\ pc' = [pc EXCEPT ![p] = "logs_provider"]
         ELSE /\ pw' = [pw EXCEPT ![p].errors = Caught(@, "Logs: ", The(r.error))]
              /\ pc' = [pc EXCEPT ![p] = AfterLogs(pw[p])]
    /\ UNCHANGED <<db, repos, held, started, attempts, tasks, kind, arg, session, resp>>

\* provision_logs step 2: PUT .../organizations/{org_id}/provider; return UUID(org_id)
provision_logs_provider(p, r) ==
    /\ pc[p] = "logs_provider"
    /\ Exchange(p, "logs", "set_provider",
                [org_id |-> pw[p].org_id, provider_type |-> The(pw[p].logs).provider], r)
    /\ IF r.ok
         THEN pw' = [pw EXCEPT ![p].logs_org_id = Some(UUID(The(pw[p].org_id))),
                               ![p].org_id = None]
         ELSE pw' = [pw EXCEPT ![p].errors = Caught(@, "Logs: ", The(r.error)),
                               ![p].org_id = None]
    /\ pc' = [pc EXCEPT ![p] = AfterLogs(pw[p])]
    /\ UNCHANGED <<db, remote, started, attempts, tasks, kind, arg, session, resp>>

\* provision_code step 1: POST {code}/api/v1/orgs
provision_code_org(p, r) ==
    /\ pc[p] = "code_org"
    /\ Exchange(p, "code", "create_org", [slug |-> obj[p].slug], r)
    /\ OrgCreated("code", r)
    /\ IF r.ok
         THEN /\ pw' = [pw EXCEPT ![p].org_id = r.id]
              /\ pc' = [pc EXCEPT ![p] = "code_repo"]
         ELSE /\ pw' = [pw EXCEPT ![p].errors = Caught(@, "Code: ", The(r.error))]
              /\ pc' = [pc EXCEPT ![p] = AfterCode(pw[p])]
    /\ UNCHANGED <<db, repos, held, started, attempts, tasks, kind, arg, session, resp>>

\* provision_code step 2: POST {code}/api/v1/repos; return (org_id, repo_id)
provision_code_repo(p, r) ==
    /\ pc[p] = "code_repo"
    /\ Exchange(p, "code", "submit_repo",
                [org_id |-> pw[p].org_id, path |-> The(pw[p].code).repo_path], r)
    /\ repos' = IF r.ok THEN repos + 1 ELSE repos
    /\ IF r.ok
         THEN pw' = [pw EXCEPT ![p].code_parser_org_id = pw[p].org_id,
                               ![p].code_parser_repo_id = r.id,
                               ![p].org_id = None]
         ELSE pw' = [pw EXCEPT ![p].errors = Caught(@, "Code: ", The(r.error)),
                               ![p].org_id = None]
    /\ pc' = [pc EXCEPT ![p] = AfterCode(pw[p])]
    /\ UNCHANGED <<db, orgs, held, started, attempts, tasks, kind, arg, session, resp>>

\* mutant: the metrics and logs identifiers are passed in each other's field
FixaiPayloadSwapped(slug, l) ==
    [ slug |-> slug,
      code_parser_org_id |-> l.code_parser_org_id,
      code_parser_repo_id |-> l.code_parser_repo_id,
      metrics_explorer_org_id |->
          IF Truthy(l.logs_org_id) THEN Some(Str(The(l.logs_org_id))) ELSE None,
      logs_explorer_org_id |->
          IF Truthy(l.metrics_org_id) THEN Some(Str(The(l.metrics_org_id))) ELSE None ]

\* the JSON body of provision_fixai's POST (lines 170-181)
FixaiPayload(slug, l) ==
    [ slug |-> slug,
      code_parser_org_id |-> l.code_parser_org_id,
      code_parser_repo_id |-> l.code_parser_repo_id,
      metrics_explorer_org_id |->
          IF Truthy(l.metrics_org_id) THEN Some(Str(The(l.metrics_org_id))) ELSE None,
      logs_explorer_org_id |->
          IF Truthy(l.logs_org_id) THEN Some(Str(The(l.logs_org_id))) ELSE None ]

\* provision_fixai: POST {fixai}/api/v1/organizations; return UUID(id)
provision_fixai(p, r) ==
    /\ pc[p] = "fixai_org"
    /\ Exchange(p, "fixai", "create_org", FixaiPayload(obj[p].slug, pw[p]), r)
    /\ OrgCreated("fixai", r)
    /\ IF r.ok
         THEN pw' = [pw EXCEPT ![p].fixai_org_id = Some(UUID(The(r.id)))]
         ELSE pw' = [pw EXCEPT ![p].errors = Caught(@, "FixAI: ", The(r.error))]
    /\ pc' = [pc EXCEPT ![p] = "pw_return"]
    /\ UNCHANGED <<db, repos, held, started, attempts, tasks, kind, arg, session, resp>>

\* the dict provision_workspace returns (lines 242-249)
Result(l) ==
    [ fixai_org_id |-> l.fixai_org_id,
      metrics_org_id |-> l.metrics_org_id,
      logs_org_id |-> l.logs_org_id,
      code_parser_org_id |-> l.code_parser_org_id,
      code_parser_repo_id |-> l.code_parser_repo_id,
      errors |-> l.errors ]

\* ───────────── api/setup.py ─────────────
\* mutant: a link the workspace already has is kept, the new identifier is dropped
ApplyKeepsLinks(ws, result) ==
    [ ws EXCEPT
        !.fixai_org_id = IF Truthy(ws.fixai_org_id) THEN @ ELSE result.fixai_org_id,
        !.metrics_org_id = IF Truthy(ws.metrics_org_id) THEN @ ELSE result.metrics_org_id,
        !.logs_org_id = IF Truthy(ws.logs_org_id) THEN @ ELSE result.logs_org_id,
        !.code_parser_org_id =
            IF Truthy(ws.code_parser_org_id) THEN @ ELSE result.code_parser_org_id,
        !.code_parser_repo_id =
            IF Truthy(ws.code_parser_repo_id) THEN @ ELSE result.code_parser_repo_id,
        !.status = IF result.errors # << >> THEN "error" ELSE "ready",
        !.error_message = IF result.errors # << >>
                            THEN Some(Join(<<"; ">>, result.errors))
                            ELSE None ]

\* the caller's update of the ORM object from the result (provision lines 220-231,
\* setup_complete lines 305-316)
Apply(ws, result) ==
    [ ws EXCEPT
        !.fixai_org_id = result.fixai_org_id,
        !.metrics_org_id = result.metrics_org_id,
        !.logs_org_id = result.logs_org_id,
        !.code_parser_org_id = result.code_parser_org_id,
        !.code_parser_repo_id = result.code_parser_repo_id,
        !.status = IF result.errors # << >> THEN "error" ELSE "ready",
        !.error_message = IF result.errors # << >>
                            THEN Some(Join(<<"; ">>, result.errors))
                            ELSE None ]

\* setup_complete: select by slug (409 when taken), build the Workspace object
\* with the configurations of the body
SetupBodies ==
    [ slug : Slugs, metrics : Opt(MetricsConfigs), logs : Opt(LogsConfigs),
      code : Opt(CodeConfigs) ]

WizardObject(body) ==
    [ Workspace(0, body.slug, "provisioning") EXCEPT
        !.metrics_provider =
            IF Truthy(body.metrics) THEN Some(The(body.metrics).provider) ELSE None,
        !.metrics_credentials_encrypted =
            IF Truthy(body.metrics)
              THEN Some(The(body.metrics).keys
                          \cap {"api_key", "app_key", "site", "bearer_token"})
              ELSE None,
        !.logs_provider =
            IF Truthy(body.logs) THEN Some(The(body.logs).provider) ELSE None,
        !.code_repo_path =
            IF Truthy(body.code) THEN Some(The(body.code).repo_path) ELSE None ]

setup_complete_select(p, body) ==
    /\ Accept(p, "setup_complete", body)
    /\ IF SelectBySlug(body.slug) # {}
         THEN /\ Done(p, Error(409))
              /\ UNCHANGED <<session, attempts>>
         ELSE /\ attempts < MaxAttempts
              /\ attempts' = attempts + 1
              /\ pc' = [pc EXCEPT ![p] = "sc_commit"]
              /\ obj' = [obj EXCEPT ![p] = WizardObject(body)]
              /\ UNCHANGED <<base, resp>>
    /\ UNCHANGED <<db, remote, pw, calls, tasks>>

\* db.add(ws); commit; refresh; then provision_workspace(ws, metrics=body.metrics, ...)
setup_complete_commit(p) ==
    /\ pc[p] = "sc_commit"
    /\ IF SlugTaken(obj[p].slug)
         THEN /\ Done(p, Error(500))
              /\ UNCHANGED <<db, session, pw>>
         ELSE LET row == [obj[p] EXCEPT !.id = next_id + 1]
                  l == PwStart(arg[p].metrics, arg[p].logs, arg[p].code) IN
              /\ workspaces' = workspaces \cup {row}
              /\ next_id' = next_id + 1
              /\ obj' = [obj EXCEPT ![p] = row]
              /\ base' = [base EXCEPT ![p] = row]
              /\ pw' = [pw EXCEPT ![p] = l]
              /\ pc' = [pc EXCEPT ![p] = Entry(l)]
              /\ UNCHANGED <<ai_config, global_key, env, resp>>
    /\ UNCHANGED <<remote, started, attempts, tasks, kind, arg, calls>>

\* ───────────── api/setup.py step endpoints ─────────────
\* request bodies of save_ai_config (schemas/workspace.py AIConfig)
LlmConfigs == { [llm_provider |-> "anthropic"], [llm_provider |-> "bedrock"] }

\* the credential keys save_metrics_config copies into the stored dict
StepCredentialKeys == {"api_key", "app_key", "site", "bearer_token", "username", "password"}

\* the assignments of the four step endpoints
AssignLlm(ws, body) == [ws EXCEPT !.llm_provider = Some(body.llm_provider)]
AssignMetrics(ws, body) ==
    [ws EXCEPT !.metrics_provider = Some(body.provider),
               !.metrics_credentials_encrypted = Some(body.keys \cap StepCredentialKeys)]
AssignLogs(ws, body) == [ws EXCEPT !.logs_provider = Some(body.provider)]
AssignCode(ws, body) == [ws EXCEPT !.code_repo_path = Some(body.repo_path)]

\* db.get (404 when absent), then the assignments of the endpoint
StepGet(p, k, id, body, o) ==
    /\ Accept(p, k, [workspace_id |-> id, body |-> body])
    /\ IF Get(id) = {}
         THEN /\ Done(p, NotFound)
              /\ UNCHANGED session
         ELSE /\ pc' = [pc EXCEPT ![p] = "st_commit"]
              /\ obj' = [obj EXCEPT ![p] = o]
              /\ base' = [base EXCEPT ![p] = The(Get(id))]
              /\ UNCHANGED resp
    /\ UNCHANGED <<db, remote, attempts, tasks, pw, calls>>

save_llm_config_get(p, id, body) ==
    StepGet(p, "setup_save_ai_config", id, body,
            IF Get(id) = {} THEN NoObject ELSE AssignLlm(The(Get(id)), body))
save_metrics_config_get(p, id, body) ==
    StepGet(p, "save_metrics_config", id, body,
            IF Get(id) = {} THEN NoObject ELSE AssignMetrics(The(Get(id)), body))
save_logs_config_get(p, id, body) ==
    StepGet(p, "save_logs_config", id, body,
            IF Get(id) = {} THEN NoObject ELSE AssignLogs(The(Get(id)), body))
save_code_config_get(p, id, body) ==
    StepGet(p, "save_code_config", id, body,
            IF Get(id) = {} THEN NoObject ELSE AssignCode(The(Get(id)), body))

\* commit, refresh, respond.  The UPDATE of a row deleted meanwhile matches no
\* row (StaleDataError), and so does the refresh: not handled, 500.
save_config_commit(p) ==
    /\ pc[p] = "st_commit"
    /\ IF Get(obj[p].id) = {}
         THEN /\ Done(p, Error(500))
              /\ UNCHANGED <<db, session>>
         ELSE LET row == Updated(The(Get(obj[p].id)), obj[p], base[p]) IN
              /\ workspaces' = (workspaces \ Get(obj[p].id)) \cup {row}
              /\ obj' = [obj EXCEPT ![p] = row]
              /\ base' = [base EXCEPT ![p] = row]
              /\ Done(p, ToResponse(200, row))
              /\ UNCHANGED <<ai_config, global_key, env, next_id>>
    /\ UNCHANGED <<remote, started, attempts, tasks, kind, arg, pw, calls>>

\* provision: db.get (404 when absent); ws.status = "provisioning"
provision_get(p, id) ==
    /\ Accept(p, "provision", [workspace_id |-> id])
    /\ IF Get(id) = {}
         THEN /\ Done(p, NotFound)
              /\ UNCHANGED <<session, attempts>>
         ELSE /\ attempts < MaxAttempts
              /\ attempts' = attempts + 1
              /\ pc' = [pc EXCEPT ![p] = "pv_commit"]
              /\ obj' = [obj EXCEPT ![p] = [The(Get(id)) EXCEPT !.status = "provisioning"]]
              /\ base' = [base EXCEPT ![p] = The(Get(id))]
              /\ UNCHANGED resp
    /\ UNCHANGED <<db, remote, pw, calls, tasks>>

\* the configuration objects provision builds from the stored columns (lines 171-209)
StoredMetrics(ws) ==
    IF Truthy(ws.metrics_provider)
         /\ Truthy(ws.metrics_credentials_encrypted)
         /\ The(ws.metrics_credentials_encrypted) # {}
      THEN Some([provider |-> The(ws.metrics_provider),
                 keys |-> The(ws.metrics_credentials_encrypted)])
      ELSE None
StoredLogs(ws) ==
    IF Truthy(ws.logs_provider) THEN Some([provider |-> The(ws.logs_provider)]) ELSE None
StoredCode(ws) ==
    IF Truthy(ws.code_repo_path) THEN Some([repo_path |-> The(ws.code_repo_path)]) ELSE None

\* provision: commit of the status; then provision_workspace with the stored configuration
provision_commit(p) ==
    /\ pc[p] = "pv_commit"
    /\ IF Dirty(obj[p], base[p]) # {} /\ Get(obj[p].id) = {}
         THEN /\ Done(p, Error(500))
              /\ UNCHANGED <<db, session, pw>>
         ELSE LET l == PwStart(StoredMetrics(obj[p]), StoredLogs(obj[p]), StoredCode(obj[p])) IN
              /\ workspaces' =
                    IF Dirty(obj[p], base[p]) = {} THEN workspaces
                    ELSE (workspaces \ Get(obj[p].id))
                            \cup { Updated(The(Get(obj[p].id)), obj[p], base[p]) }
              /\ base' = [base EXCEPT ![p] = obj[p]]
              /\ pw' = [pw EXCEPT ![p] = l]
              /\ pc' = [pc EXCEPT ![p] = Entry(l)]
              /\ UNCHANGED <<ai_config, global_key, env, next_id, obj, resp>>
    /\ UNCHANGED <<remote, started, attempts, tasks, kind, arg, calls>>

\* provision / setup_complete after provision_workspace returned: copy the result
\* into the object, commit, refresh, respond (200 for provision, 201 for the wizard)
\* code_parser_org_id and code_parser_repo_id are String(50) columns: PostgreSQL
\* rejects an UPDATE that stores a longer text (form "long": a text of more than
\* fifty characters); the identifiers of the code service are stored as received
Storable(ws) ==
    /\ \A v \in ws.code_parser_org_id : v.form # "long"
    /\ \A v \in ws.code_parser_repo_id : v.form # "long"

provision_finish(p) ==
    /\ pc[p] = "pw_return"
    /\ LET ws == Apply(obj[p], Result(pw[p])) IN
       IF Get(ws.id) = {} \/ ~Storable(ws)
         THEN /\ Done(p, Error(500))
              /\ UNCHANGED <<db, session>>
         ELSE LET row == Updated(The(Get(ws.id)), ws, base[p]) IN
              /\ workspaces' = (workspaces \ Get(ws.id)) \cup {row}
              /\ obj' = [obj EXCEPT ![p] = row]
              /\ base' = [base EXCEPT ![p] = row]
              /\ Done(p, ToResponse(IF kind[p] = "provision" THEN 200 ELSE 201, row))
              /\ UNCHANGED <<ai_config, global_key, env, next_id>>
    /\ UNCHANGED <<remote, started, attempts, tasks, kind, arg, pw, calls>>

\* ───────────── api/ai_settings.py, models/ai_config.py, database.py ─────────────
\* select(AIConfig).where(workspace_id IS NULL) / (workspace_id == id)
GlobalRows == { c \in ai_config : c.workspace_id = None }
WorkspaceRows(id) == { c \in ai_config : c.workspace_id = Some(id) }

\* The constraints the INSERT of an ai_config row must satisfy.  The column is
\* declared unique=True: PostgreSQL treats NULLs as distinct, so this constrains
\* workspace-owned rows only.  The partial index ai_config_global_key (one row
\* with workspace_id IS NULL) exists only when _migrate_ai_config_workspace_id
\* found the column missing; a database built by create_all has the column and
\* skips the migration.  The foreign key needs the workspace row.
InsertAllowed(cfg) ==
    IF cfg.workspace_id = None
      THEN ~(global_key /\ GlobalRows # {})
      ELSE /\ WorkspaceRows(The(cfg.workspace_id)) = {}
           /\ Get(The(cfg.workspace_id)) # {}

\* AIConfig(...) seeded from the environment (lines 49-56)
SeededGlobal ==
    [ id |-> 0, workspace_id |-> None,
      provider |-> IF Truthy(env.CLAUDE_BEDROCK_URL) THEN "bedrock" ELSE "claude",
      api_key |-> Some(Getenv(env.CLAUDE_API_KEY, << >>)),
      base_url |-> Some(Getenv(env.CLAUDE_BEDROCK_URL, "")),
      model_id |-> Some(Getenv(env.CLAUDE_MODEL_ID, "")),
      max_tokens |-> 4096 ]

\* AIConfig(...) of a workspace, seeded from the global row if any (lines 70-77)
\* mutant: the credential of the global row is copied too
SeededWorkspaceWithKey(id, global_cfg) ==
    [ id |-> 0, workspace_id |-> Some(id),
      provider |-> IF Truthy(global_cfg) THEN The(global_cfg).provider ELSE "bedrock",
      api_key |-> IF Truthy(global_cfg) THEN The(global_cfg).api_key ELSE None,
      base_url |-> IF Truthy(global_cfg) THEN The(global_cfg).base_url
                   ELSE Some(Getenv(env.CLAUDE_BEDROCK_URL, "")),
      model_id |-> IF Truthy(global_cfg) THEN The(global_cfg).model_id
                   ELSE Some(Getenv(env.CLAUDE_MODEL_ID, "")),
      max_tokens |-> IF Truthy(global_cfg) THEN The(global_cfg).max_tokens ELSE 4096 ]

SeededWorkspace(id, global_cfg) ==
    [ id |-> 0, workspace_id |-> Some(id),
      provider |-> IF Truthy(global_cfg) THEN The(global_cfg).provider ELSE "bedrock",
      api_key |-> None,
      base_url |-> IF Truthy(global_cfg) THEN The(global_cfg).base_url
                   ELSE Some(Getenv(env.CLAUDE_BEDROCK_URL, "")),
      model_id |-> IF Truthy(global_cfg) THEN The(global_cfg).model_id
                   ELSE Some(Getenv(env.CLAUDE_MODEL_ID, "")),
      max_tokens |-> IF Truthy(global_cfg) THEN The(global_cfg).max_tokens ELSE 4096 ]

\* _to_response of ai_settings.py: the credential is reported as a flag and a
\* preview of its last characters, given only for a credential longer than that
PreviewLen == 8
Ellipsis == <<".", ".", ".">>
AiToResponse(cfg) ==
    LET key == IF Truthy(cfg.api_key) THEN The(cfg.api_key) ELSE << >> IN
    [ provider |-> cfg.provider,
      api_key_set |-> key # << >>,
      api_key_preview |->
          IF Len(key) > PreviewLen THEN Some(Ellipsis \o Last(key, PreviewLen)) ELSE None,
      base_url |-> cfg.base_url, model_id |-> cfg.model_id, max_tokens |-> cfg.max_tokens ]
AiResponse(code, cfg) == [ code |-> code, body |-> Some(AiToResponse(cfg)) ]

\* get_or_create_ai_config returns cfg to its caller: the two read handlers
\* respond with it, the two save handlers go on to assign the body's values
Saving(p) == kind[p] \in {"save_ai_config", "save_workspace_ai_config"}
GotConfig(p, cfg) ==
    IF Saving(p)
      THEN pc' = [pc EXCEPT ![p] = "ai_save"] /\ UNCHANGED resp
      ELSE Done(p, AiResponse(200, cfg))

\* get_ai_config: get_or_create_ai_config(db, None), the select (limit 1)
get_ai_config_select(p) ==
    /\ Accept(p, "get_ai_config", NoLocals)
    /\ \/ \E cfg \in GlobalRows :
            /\ obj' = [obj EXCEPT ![p] = cfg]
            /\ Done(p, AiResponse(200, cfg))
       \/ /\ GlobalRows = {}
          /\ obj' = [obj EXCEPT ![p] = SeededGlobal]
          /\ pc' = [pc EXCEPT ![p] = "ai_commit"]
          /\ UNCHANGED resp
    /\ UNCHANGED <<db, remote, attempts, tasks, base, pw, calls>>

\* AIConfigUpdate: provider, api_key, base_url, model_id, max_tokens
AiBodies ==
    { [ provider |-> "claude", api_key |-> k, base_url |-> None,
        model_id |-> Some("m3"), max_tokens |-> 2000 ] : k \in {None, Some(SkNew)} }

\* save_ai_config: get_or_create_ai_config(db, None), the select (limit 1)
save_ai_config_select(p, body) ==
    /\ Accept(p, "save_ai_config", [body |-> body])
    /\ \/ \E cfg \in GlobalRows :
            /\ obj' = [obj EXCEPT ![p] = cfg]
            /\ base' = [base EXCEPT ![p] = cfg]
            /\ pc' = [pc EXCEPT ![p] = "ai_save"]
       \/ /\ GlobalRows = {}
          /\ obj' = [obj EXCEPT ![p] = SeededGlobal]
          /\ pc' = [pc EXCEPT ![p] = "ai_commit"]
          /\ UNCHANGED base
    /\ UNCHANGED <<db, remote, attempts, tasks, pw, calls, resp>>

\* save_workspace_ai_config: db.get of the workspace (404 when absent)
save_workspace_ai_config_get(p, id, body) ==
    /\ Accept(p, "save_workspace_ai_config", [workspace_id |-> id, body |-> body])
    /\ IF Get(id) = {}
         THEN Done(p, NotFound)
         ELSE /\ pc' = [pc EXCEPT ![p] = "ai_select"]
              /\ UNCHANGED resp
    /\ UNCHANGED <<db, remote, attempts, tasks, session, pw, calls>>

\* get_workspace_ai_config: db.get of the workspace (404 when absent)
get_workspace_ai_config_get(p, id) ==
    /\ Accept(p, "get_workspace_ai_config", [workspace_id |-> id])
    /\ IF Get(id) = {}
         THEN Done(p, NotFound)
         ELSE /\ pc' = [pc EXCEPT ![p] = "ai_select"]
              /\ UNCHANGED resp
    /\ UNCHANGED <<db, remote, attempts, tasks, session, pw, calls>>

\* get_or_create_ai_config(db, workspace_id): the select of the workspace's row
get_workspace_ai_config_select(p) ==
    /\ pc[p] = "ai_select"
    /\ \/ \E cfg \in WorkspaceRows(arg[p].workspace_id) :
            /\ obj' = [obj EXCEPT ![p] = cfg]
            /\ base' = [base EXCEPT ![p] = cfg]
            /\ GotConfig(p, cfg)
       \/ /\ WorkspaceRows(arg[p].workspace_id) = {}
          /\ pc' = [pc EXCEPT ![p] = "ai_select_global"]
          /\ UNCHANGED <<obj, base, resp>>
    /\ UNCHANGED <<db, remote, started, attempts, tasks, kind, arg, pw, calls>>

\* ... no row: the select of the global row (limit 1) and the new AIConfig object
get_workspace_ai_config_global(p) ==
    /\ pc[p] = "ai_select_global"
    /\ \E g \in (IF GlobalRows = {} THEN {None} ELSE { Some(c) : c \in GlobalRows }) :
            obj' = [obj EXCEPT ![p] = SeededWorkspace(arg[p].workspace_id, g)]
    /\ pc' = [pc EXCEPT ![p] = "ai_commit"]
    /\ UNCHANGED <<db, remote, started, attempts, tasks, kind, arg, base, pw, calls, resp>>

\* get_or_create_ai_config: db.add(cfg); commit; refresh; the handler responds.
\* An INSERT the constraints reject raises IntegrityError (not handled: 500).
get_or_create_ai_config_commit(p) ==
    /\ pc[p] = "ai_commit"
    /\ IF ~InsertAllowed(obj[p])
         THEN /\ Done(p, Error(500))
              /\ UNCHANGED <<db, session>>
         ELSE LET row == [obj[p] EXCEPT !.id = next_id + 1] IN
              /\ ai_config' = ai_config \cup {row}
              /\ next_id' = next_id + 1
              /\ obj' = [obj EXCEPT ![p] = row]
              /\ base' = [base EXCEPT ![p] = row]
              /\ GotConfig(p, row)
              /\ UNCHANGED <<workspaces, global_key, env>>
    /\ UNCHANGED <<remote, started, attempts, tasks, kind, arg, pw, calls>>

\* ───────────── api/workspaces.py: service links and background tasks ─────────────
\* the empty str, and the truth value of an Optional[str] ("" and None are falsy)
EmptyStr == [form |-> "empty", n |-> 0]
TruthyStr(o) == o # {} /\ The(o) # EmptyStr

\* background_tasks.add_task(...): the tasks run, in this order, after the response
Enqueue(p, new) == tasks' = [tasks EXCEPT ![p] = @ \o new]
Pop(p) == tasks' = [tasks EXCEPT ![p] = Tail(@)]
Running(p, fn) == pc[p] = "done" /\ tasks[p] # << >> /\ Head(tasks[p]).fn = fn

\* try / except Exception around each request of a background task: the outcome
\* goes to the log (logger.info, logger.warning) and nowhere else
LoggedInRow(p, r) ==
    /\ workspaces' = IF r.ok THEN workspaces
                              ELSE { [w EXCEPT !.status = "error"] : w \in workspaces }
    /\ UNCHANGED <<ai_config, resp>>
Logged(p, r) == UNCHANGED <<workspaces, ai_config, resp>>

\* an organization that accepts a PATCH of its service mapping or a PUT of its AI
\* configuration holds the payload of that request from then on
Holding(svc, op, org_id) == { h \in held : h.service = svc /\ h.op = op /\ h.org_id = org_id }
Deliver(svc, op, body, r) ==
    held' = IF r.ok
              THEN (held \ Holding(svc, op, body.org_id))
                      \cup { [service |-> svc, op |-> op, org_id |-> body.org_id,
                              payload |-> body.payload] }
              ELSE held

PushToOrg(service, org_id) ==
    [ fn |-> "_push_ai_config_to_org", service |-> service, org_id |-> org_id,
      stage |-> "select", cfg |-> None ]
SyncMappings(ws) == [ fn |-> "_sync_service_mappings_to_fixai", ws |-> ws ]

\* mutant: the flush writes every column of the object
FlushWholeRow(row, o, cols) == o
\* the UPDATE of a flush: the listed columns get the object's values
Flush(row, o, cols) == [ c \in WsColumns |-> IF c \in cols THEN o[c] ELSE row[c] ]

\* a uuid.UUID object where a JSON value is expected
UuidObject(u) == [form |-> "UUID", n |-> u]

\* mutant: an unlinked service is sent as empty strings
BuildFixaiServiceMappingsEmpty(ws) ==
    [ code_parser_base_url |->
          IF TruthyStr(ws.code_parser_org_id) THEN Some("code_parser_url") ELSE None,
      code_parser_org_id |->
          IF TruthyStr(ws.code_parser_org_id) THEN ws.code_parser_org_id ELSE Some(EmptyStr),
      code_parser_repo_id |->
          IF TruthyStr(ws.code_parser_org_id) THEN ws.code_parser_repo_id ELSE Some(EmptyStr),
      metrics_explorer_base_url |->
          IF Truthy(ws.metrics_org_id) THEN Some("metrics_explorer_url") ELSE None,
      metrics_explorer_org_id |->
          IF Truthy(ws.metrics_org_id) THEN Some(UuidObject(The(ws.metrics_org_id)))
          ELSE Some(EmptyStr),
      logs_explorer_base_url |->
          IF Truthy(ws.logs_org_id) THEN Some("logs_explorer_url") ELSE None,
      logs_explorer_org_id |->
          IF Truthy(ws.logs_org_id) THEN Some(UuidObject(The(ws.logs_org_id)))
          ELSE Some(EmptyStr) ]

\* _build_fixai_service_mappings(ws): the values are the object's attributes as
\* they are (str for the code parser, uuid.UUID for metrics and logs)
BuildFixaiServiceMappings(ws) ==
    [ code_parser_base_url |->
          IF TruthyStr(ws.code_parser_org_id) THEN Some("code_parser_url") ELSE None,
      code_parser_org_id |->
          IF TruthyStr(ws.code_parser_org_id) THEN ws.code_parser_org_id ELSE None,
      code_parser_repo_id |->
          IF TruthyStr(ws.code_parser_org_id) THEN ws.code_parser_repo_id ELSE None,
      metrics_explorer_base_url |->
          IF Truthy(ws.metrics_org_id) THEN Some("metrics_explorer_url") ELSE None,
      metrics_explorer_org_id |->
          IF Truthy(ws.metrics_org_id) THEN Some(UuidObject(The(ws.metrics_org_id)))
          ELSE None,
      logs_explorer_base_url |->
          IF Truthy(ws.logs_org_id) THEN Some("logs_explorer_url") ELSE None,
      logs_explorer_org_id |->
          IF Truthy(ws.logs_org_id) THEN Some(UuidObject(The(ws.logs_org_id)))
          ELSE None ]

\* client.post/patch(url, json=payload) encodes the body with json.dumps, which
\* raises TypeError on a uuid.UUID value before anything is sent
UuidFields == {"metrics_explorer_org_id", "logs_explorer_org_id"}
Serializable(payload) ==
    \A f \in UuidFields : Truthy(payload[f]) => The(payload[f]).form # "UUID"

\* ConnectServiceRequest: service, org_id, repo_id
LinkServices == {"fixai", "metrics", "logs", "code_parser"}
ConnectBodies ==
    [ service : {"fixai", "metrics", "logs"}, org_id : {[form |-> "upper", n |-> 7]},
      repo_id : {None} ]
    \cup [ service : {"code_parser"}, org_id : {[form |-> "raw", n |-> 7], EmptyStr},
           repo_id : {None, Some([form |-> "raw", n |-> 9])} ]

\* connect_service lines 375-384: the assignments to the ORM object
ConnectAssign(ws, body) ==
    CASE body.service = "fixai" -> [ws EXCEPT !.fixai_org_id = Some(UUID(body.org_id))]
      [] body.service = "metrics" -> [ws EXCEPT !.metrics_org_id = Some(UUID(body.org_id))]
      [] body.service = "logs" -> [ws EXCEPT !.logs_org_id = Some(UUID(body.org_id))]
      [] body.service = "code_parser" ->
            [ws EXCEPT !.code_parser_org_id = Some(body.org_id),
                       !.code_parser_repo_id =
                            IF TruthyStr(body.repo_id) THEN body.repo_id ELSE @]
      [] OTHER -> ws

\* a str assigned to a UUID attribute never compares equal to the loaded
\* uuid.UUID, so the flush writes the column whatever its loaded value was
AssignedStr(service) ==
    CASE service = "fixai" -> {"fixai_org_id"}
      [] service = "metrics" -> {"metrics_org_id"}
      [] service = "logs" -> {"logs_org_id"}
      [] OTHER -> {}

\* connect_service: db.get (404 when absent), the assignments
connect_service_get(p, id, body) ==
    /\ Accept(p, "connect_service", [workspace_id |-> id, body |-> body])
    /\ IF Get(id) = {}
         THEN /\ Done(p, NotFound)
              /\ UNCHANGED session
         ELSE /\ pc' = [pc EXCEPT ![p] = "cs_commit"]
              /\ obj' = [obj EXCEPT ![p] = ConnectAssign(The(Get(id)), body)]
              /\ base' = [base EXCEPT ![p] = The(Get(id))]
              /\ UNCHANGED resp
    /\ UNCHANGED <<db, remote, attempts, pw, calls, tasks>>

\* mutant: the sync is added without looking at the AI-assist link
ConnectTasksUnguarded(body, ws) ==
    (IF body.service \in {"fixai", "code_parser"}
       THEN << PushToOrg(body.service, body.org_id) >> ELSE << >>)
    \o << SyncMappings(ws) >>

\* the tasks connect_service adds after its commit (lines 389-395)
ConnectTasks(body, ws) ==
    (IF body.service \in {"fixai", "code_parser"}
       THEN << PushToOrg(body.service, body.org_id) >> ELSE << >>)
    \o (IF body.service # "fixai" /\ Truthy(ws.fixai_org_id)
          THEN << SyncMappings(ws) >> ELSE << >>)

\* connect_service: commit, refresh, add the background tasks, respond
connect_service_commit(p) ==
    /\ pc[p] = "cs_commit"
    /\ IF Get(obj[p].id) = {}
         THEN /\ Done(p, Error(500))
              /\ UNCHANGED <<db, session, tasks>>
         ELSE LET cols == Dirty(obj[p], base[p]) \cup AssignedStr(arg[p].body.service)
                  row == Flush(The(Get(obj[p].id)), obj[p], cols) IN
              /\ workspaces' = (workspaces \ Get(obj[p].id)) \cup {row}
              /\ obj' = [obj EXCEPT ![p] = row]
              /\ base' = [base EXCEPT ![p] = row]
              /\ Enqueue(p, ConnectTasks(arg[p].body, row))
              /\ Done(p, ToResponse(200, row))
              /\ UNCHANGED <<ai_config, global_key, env, next_id>>
    /\ UNCHANGED <<remote, started, attempts, kind, arg, pw, calls>>

\* disconnect_service lines 412-422: the assignments to the ORM object
DisconnectAssign(ws, service) ==
    CASE service = "fixai" -> [ws EXCEPT !.fixai_org_id = None]
      [] service = "metrics" -> [ws EXCEPT !.metrics_org_id = None]
      [] service = "logs" -> [ws EXCEPT !.logs_org_id = None]
      [] service = "code_parser" ->
            [ws EXCEPT !.code_parser_org_id = None, !.code_parser_repo_id = None]

\* disconnect_service: db.get (404 when absent), the assignments (400 for a
\* service that is none of the four)
disconnect_service_get(p, id, service) ==
    /\ Accept(p, "disconnect_service", [workspace_id |-> id, service |-> service])
    /\ IF Get(id) = {}
         THEN /\ Done(p, NotFound)
              /\ UNCHANGED session
         ELSE IF service \notin LinkServices
         THEN /\ Done(p, Error(400))
              /\ UNCHANGED session
         ELSE /\ pc' = [pc EXCEPT ![p] = "ds_commit"]
              /\ obj' = [obj EXCEPT ![p] = DisconnectAssign(The(Get(id)), service)]
              /\ base' = [base EXCEPT ![p] = The(Get(id))]
              /\ UNCHANGED resp
    /\ UNCHANGED <<db, remote, attempts, pw, calls, tasks>>

\* the task disconnect_service adds after its commit (lines 427-429)
DisconnectTasks(service, ws) ==
    IF service # "fixai" /\ Truthy(ws.fixai_org_id) THEN << SyncMappings(ws) >> ELSE << >>

\* disconnect_service: commit, refresh, add the background task, respond
disconnect_service_commit(p) ==
    /\ pc[p] = "ds_commit"
    /\ IF Get(obj[p].id) = {}
         THEN /\ Done(p, Error(500))
              /\ UNCHANGED <<db, session, tasks>>
         ELSE LET row == Flush(The(Get(obj[p].id)), obj[p], Dirty(obj[p], base[p])) IN
              /\ workspaces' = (workspaces \ Get(obj[p].id)) \cup {row}
              /\ obj' = [obj EXCEPT ![p] = row]
              /\ base' = [base EXCEPT ![p] = row]
              /\ Enqueue(p, DisconnectTasks(arg[p].service, row))
              /\ Done(p, ToResponse(200, row))
              /\ UNCHANGED <<ai_config, global_key, env, next_id>>
    /\ UNCHANGED <<remote, started, attempts, kind, arg, pw, calls>>

\* _sync_service_mappings_to_fixai(ws): nothing when the object has no AI-assist
\* link; otherwise one PATCH of the organization, unless the payload cannot be
\* encoded; every exception is caught and logged
sync_service_mappings_to_fixai(p, r) ==
    /\ Running(p, "_sync_service_mappings_to_fixai")
    /\ LET ws == Head(tasks[p]).ws
           payload == BuildFixaiServiceMappings(ws) IN
       IF Truthy(ws.fixai_org_id) /\ Serializable(payload)
         THEN LET body == [org_id |-> Str(The(ws.fixai_org_id)), payload |-> payload] IN
              /\ Exchange(p, "fixai", "patch_org", body, r)
              /\ Deliver("fixai", "patch_org", body, r)
         ELSE UNCHANGED <<calls, held>>
    /\ Pop(p)
    /\ Logged(p, r)
    /\ UNCHANGED <<global_key, env, next_id, orgs, repos, started, attempts, kind, pc, arg,
                   session, pw>>

\* the credential payload of a configuration row (lines 340-345, ai_settings 96-101)
AiPayload(cfg) ==
    [ claude_api_key |-> IF Truthy(cfg.api_key) THEN The(cfg.api_key) ELSE << >>,
      claude_bedrock_url |-> IF Truthy(cfg.base_url) THEN The(cfg.base_url) ELSE "",
      claude_model_id |-> IF Truthy(cfg.model_id) THEN The(cfg.model_id) ELSE "",
      claude_max_tokens |-> cfg.max_tokens ]

\* select(AIConfig).limit(1): no filter and no ordering, any row of the table
SelectAnyConfig == IF ai_config = {} THEN {None} ELSE { Some(c) : c \in ai_config }

\* _push_ai_config_to_org: the select in a session of its own; return when there
\* is no row, no credential, or the service is neither fixai nor code_parser
push_ai_config_to_org_select(p) ==
    /\ Running(p, "_push_ai_config_to_org")
    /\ Head(tasks[p]).stage = "select"
    /\ \E cfg \in SelectAnyConfig :
          IF \/ ~Truthy(cfg)
             \/ ~(Truthy(The(cfg).api_key) /\ The(The(cfg).api_key) # << >>)
             \/ Head(tasks[p]).service \notin {"fixai", "code_parser"}
            THEN Pop(p)
            ELSE tasks' = [tasks EXCEPT ![p][1].stage = "put", ![p][1].cfg = cfg]
    /\ UNCHANGED <<db, remote, started, attempts, kind, pc, arg, session, pw, calls, resp>>

\* _push_ai_config_to_org: the PUT to the organization; a failure is caught and logged
push_ai_config_to_org_put(p, r) ==
    /\ Running(p, "_push_ai_config_to_org")
    /\ Head(tasks[p]).stage = "put"
    /\ LET body == [org_id |-> Head(tasks[p]).org_id,
                    payload |-> AiPayload(The(Head(tasks[p]).cfg))] IN
         /\ Exchange(p, Head(tasks[p]).service, "put_ai_config", body, r)
         /\ Deliver(Head(tasks[p]).service, "put_ai_config", body, r)
    /\ Pop(p)
    /\ Logged(p, r)
    /\ UNCHANGED <<global_key, env, next_id, orgs, repos, started, attempts, kind, pc, arg,
                   session, pw>>

\* CreateFixAIOrgRequest: name, slug
CreateFixAIOrgBodies == [ slug : {"acme-ai"} ]

\* create_fixai_org: db.get (404), 409 when an AI-assist organization is linked,
\* 400 when no other service is linked
\* any([ws.code_parser_org_id, ws.metrics_org_id, ws.logs_org_id])
HasServicesAlways(ws) == TRUE
HasServices(ws) ==
    \/ TruthyStr(ws.code_parser_org_id)
    \/ Truthy(ws.metrics_org_id)
    \/ Truthy(ws.logs_org_id)

create_fixai_org_get(p, id, body) ==
    /\ Accept(p, "create_fixai_org", [workspace_id |-> id, body |-> body])
    /\ IF Get(id) = {}
         THEN /\ Done(p, NotFound)
              /\ UNCHANGED session
         ELSE LET ws == The(Get(id)) IN
              IF Truthy(ws.fixai_org_id)
                THEN /\ Done(p, Error(409))
                     /\ UNCHANGED session
              ELSE IF ~HasServices(ws)
                THEN /\ Done(p, Error(400))
                     /\ UNCHANGED session
              ELSE /\ pc' = [pc EXCEPT ![p] = "cf_post"]
                   /\ obj' = [obj EXCEPT ![p] = ws]
                   /\ base' = [base EXCEPT ![p] = ws]
                   /\ UNCHANGED resp
    /\ UNCHANGED <<db, remote, attempts, pw, calls, tasks>>

\* create_payload: name and slug of the body, updated with the service mappings
CreatePayload(body, ws) ==
    [ f \in {"slug"} \cup DOMAIN BuildFixaiServiceMappings(ws) |->
        IF f = "slug" THEN Some(body.slug) ELSE BuildFixaiServiceMappings(ws)[f] ]

\* the answers with which the creation request fails: a response with a
\* non-success status and a body (raise_for_status raises HTTPStatusError), or
\* no response at all (a transport error)
Rejections ==
    { [ok |-> FALSE, id |-> None, error |-> Some("status 422"),
       status |-> Some(422), text |-> "slug already exists"],
      [ok |-> FALSE, id |-> None, error |-> Some("status 500"),
       status |-> Some(500), text |-> "internal error"] }
Unreachable ==
    { [ok |-> FALSE, id |-> None, error |-> Some("connect failed"), status |-> None, text |-> ""] }
FixaiCreated(forms) ==
    { [ok |-> TRUE, id |-> Some([form |-> f, n |-> orgs["fixai"] + 1]), error |-> None,
       status |-> Some(201), text |-> ""] : f \in forms }

\* the HTTPException raised for a failed creation: the downstream status and
\* body for an HTTPStatusError, 502 for any other exception
Refusal(code, detail) == [ code |-> code, body |-> None, detail |-> detail ]
PropagatedAsBadGateway(r) ==
    Refusal(502, <<"Cannot reach FixAI: ", The(r.error)>>)
Propagated(r) ==
    IF Truthy(r.status)
      THEN Refusal(The(r.status), <<"FixAI org creation failed: ", r.text>>)
      ELSE Refusal(502, <<"Cannot reach FixAI: ", The(r.error)>>)

\* create_fixai_org: POST {fixai}/api/v1/organizations with the payload; an
\* exception (also the TypeError of the encoding) becomes an HTTPException
create_fixai_org_post(p, r) ==
    /\ pc[p] = "cf_post"
    /\ LET payload == CreatePayload(arg[p].body, obj[p]) IN
       IF ~Serializable(payload)
         THEN /\ Done(p, Refusal(502, <<"Cannot reach FixAI: ", "not JSON serializable">>))
              /\ UNCHANGED <<orgs, calls, pw>>
         ELSE /\ Exchange(p, "fixai", "create_org", payload, r)
              /\ OrgCreated("fixai", r)
              /\ IF r.ok
                   THEN /\ pc' = [pc EXCEPT ![p] = "cf_commit"]
                        /\ pw' = [pw EXCEPT ![p] = [stage |-> "created", new_org_id |-> The(r.id)]]
                        /\ UNCHANGED resp
                   ELSE /\ Done(p, Propagated(r))
                        /\ UNCHANGED pw
    /\ UNCHANGED <<db, repos, held, started, attempts, tasks, kind, arg, session>>

\* create_fixai_org: ws.fixai_org_id = new_org_id; commit; refresh; add the push
\* of the AI configuration to the new organization; respond
create_fixai_org_commit(p) ==
    /\ pc[p] = "cf_commit"
    /\ IF Get(obj[p].id) = {}
         THEN /\ Done(p, Error(500))
              /\ UNCHANGED <<db, session, tasks>>
         ELSE LET o == [obj[p] EXCEPT !.fixai_org_id = Some(UUID(pw[p].new_org_id))]
                  cols == Dirty(o, base[p]) \cup AssignedStr("fixai")
                  row == Flush(The(Get(o.id)), o, cols) IN
              /\ workspaces' = (workspaces \ Get(o.id)) \cup {row}
              /\ obj' = [obj EXCEPT ![p] = row]
              /\ base' = [base EXCEPT ![p] = row]
              /\ Enqueue(p, << PushToOrg("fixai", pw[p].new_org_id) >>)
              /\ Done(p, ToResponse(201, row))
              /\ UNCHANGED <<ai_config, global_key, env, next_id>>
    /\ UNCHANGED <<remote, started, attempts, kind, arg, pw, calls>>

\* ---------------------------------------------------------------------------
\* AI configuration saves and the push to the linked organizations
\* ---------------------------------------------------------------------------
AiColumns == {"provider", "api_key", "base_url", "model_id", "max_tokens"}

\* the assignments of the two save handlers: api_key only when the body has one
AssignBody(cfg, body) ==
    [ cfg EXCEPT !.provider = body.provider,
                 !.api_key = IF body.api_key # None THEN body.api_key ELSE @,
                 !.base_url = body.base_url,
                 !.model_id = body.model_id,
                 !.max_tokens = body.max_tokens ]

PushToServices(cfg) ==
    [ fn |-> "_push_to_services", cfg |-> cfg, stage |-> "select", targets |-> << >> ]

\* save_ai_config, save_workspace_ai_config: assign, commit (UPDATE of the changed
\* attributes), refresh, add_task(_push_to_services, cfg), response
ai_save_commit(p) ==
    /\ pc[p] = "ai_save"
    /\ LET o == AssignBody(obj[p], arg[p].body)
           stored == { c \in ai_config : c.id = o.id }
       IN IF stored = {}
            THEN /\ Done(p, Error(500))
                 /\ UNCHANGED <<db, session, tasks>>
            ELSE LET row == CHOOSE c \in stored : TRUE
                     cfg == [ c \in DOMAIN row |->
                                IF c \in AiColumns /\ o[c] # base[p][c] THEN o[c] ELSE row[c] ]
                 IN /\ ai_config' = (ai_config \ {row}) \cup {cfg}
                    /\ obj' = [obj EXCEPT ![p] = cfg]
                    /\ base' = [base EXCEPT ![p] = cfg]
                    /\ Enqueue(p, <<PushToServices(cfg)>>)
                    /\ Done(p, AiResponse(200, cfg))
                    /\ UNCHANGED <<workspaces, global_key, env, next_id>>
    /\ UNCHANGED <<remote, started, attempts, kind, arg, pw, calls>>

\* the rows _push_to_services reads: the owning workspace of a workspace-scoped
\* configuration, every workspace for the global one
ResolveAll(cfg) == workspaces
Resolve(cfg) ==
    IF cfg.workspace_id # None
      THEN { w \in workspaces : w.id = The(cfg.workspace_id) }
      ELSE workspaces

\* a select without ORDER BY returns the rows in any order
Orderings(S) ==
    { q \in [1..Cardinality(S) -> S] : \A i, j \in 1..Cardinality(S) : q[i] = q[j] => i = j }

\* per workspace: the fixai org when linked, then the code parser org when linked
TargetsOf(ws) ==
    (IF Truthy(ws.fixai_org_id)
       THEN << [service |-> "fixai", org_id |-> Str(The(ws.fixai_org_id))] >> ELSE << >>)
    \o (IF TruthyStr(ws.code_parser_org_id)
          THEN << [service |-> "code_parser", org_id |-> The(ws.code_parser_org_id)] >>
          ELSE << >>)

RECURSIVE Targets(_)
Targets(q) == IF q = << >> THEN << >> ELSE TargetsOf(Head(q)) \o Targets(Tail(q))

\* _push_to_services: the select of the workspaces in a session of its own
push_to_services_select(p) ==
    /\ Running(p, "_push_to_services")
    /\ Head(tasks[p]).stage = "select"
    /\ \E q \in Orderings(Resolve(Head(tasks[p]).cfg)) :
          IF Targets(q) = << >>
            THEN Pop(p)
            ELSE tasks' = [tasks EXCEPT ![p][1].stage = "put", ![p][1].targets = Targets(q)]
    /\ UNCHANGED <<db, remote, started, attempts, kind, pc, arg, session, pw, calls, resp>>

\* a failed PUT is caught and logged inside the loop, which goes on
RemainingRetry(targets, r) == IF r.ok THEN Tail(targets) ELSE targets
RemainingAbort(targets, r) == IF r.ok THEN Tail(targets) ELSE << >>
Remaining(targets, r) == Tail(targets)

\* _push_to_services: the PUT to the next target
push_to_services_put(p, r) ==
    /\ Running(p, "_push_to_services")
    /\ Head(tasks[p]).stage = "put"
    /\ LET t == Head(tasks[p])
           body == [org_id |-> Head(t.targets).org_id, payload |-> AiPayload(t.cfg)] IN
         /\ Exchange(p, Head(t.targets).service, "put_ai_config", body, r)
         /\ Deliver(Head(t.targets).service, "put_ai_config", body, r)
         /\ IF Remaining(t.targets, r) = << >>
              THEN Pop(p)
              ELSE tasks' = [tasks EXCEPT ![p][1].targets = Remaining(t.targets, r)]
    /\ Logged(p, r)
    /\ UNCHANGED <<global_key, env, next_id, orgs, repos, started, attempts, kind, pc, arg,
                   session, pw>>

\* the response has been delivered; the slot is free again
Respond(p) ==
    /\ pc[p] = "done"
    /\ tasks[p] = << >>
    /\ pc' = [pc EXCEPT ![p] = "idle"]
    /\ kind' = [kind EXCEPT ![p] = "none"]
    /\ arg' = [arg EXCEPT ![p] = NoLocals]
    /\ obj' = [obj EXCEPT ![p] = NoObject]
    /\ base' = [base EXCEPT ![p] = NoObject]
    /\ pw' = [pw EXCEPT ![p] = NoLocals]
    /\ calls' = [calls EXCEPT ![p] = << >>]
    /\ resp' = [resp EXCEPT ![p] = NoResponse]
    /\ UNCHANGED <<db, remote, started, attempts, tasks>>

\* ───────────── properties ─────────────
Attempting(p) == kind[p] \in {"provision", "setup_complete"}
\* provision_workspace of process p has returned its result
Returned(p) == Attempting(p) /\ pc[p] = "pw_return"
\* the attempt of process p has completed and the handler has answered
Completed(p) == Attempting(p) /\ pc[p] = "done" /\ resp[p].code \in {200, 201}

Exchanges(p, svc) == SelectSeq(calls[p], LAMBDA c : c.service = svc)
Invoked(p, svc) == Exchanges(p, svc) # << >>
Failed(p, svc) == \E i \in DOMAIN calls[p] : calls[p][i].service = svc /\ ~calls[p][i].ok
\* the provisioner of svc ran both of its steps with success
Succeeded(p, svc) ==
    /\ Len(Exchanges(p, svc)) = (IF svc = "fixai" THEN 1 ELSE 2)
    /\ ~Failed(p, svc)
Configured(p, svc) == Truthy(pw[p][svc])

Label(svc) ==
    CASE svc = "metrics" -> "Metrics: "
      [] svc = "logs" -> "Logs: "
      [] svc = "code" -> "Code: "
      [] svc = "fixai" -> "FixAI: "

\* the error strings the failed exchanges of p call for, in the order of the calls
FailedExchanges(p) == SelectSeq(calls[p], LAMBDA c : ~c.ok)
ExpectedErrors(p) ==
    [ i \in 1..Len(FailedExchanges(p)) |->
        << Label(FailedExchanges(p)[i].service), The(FailedExchanges(p)[i].error) >> ]
ErrorsLabelled(p, svc) == SelectSeq(pw[p].errors, LAMBDA e : e[1] = Label(svc))

\* the identifiers the services handed out to p, as the log of exchanges shows them
OrgAnswered(p, svc) == Exchanges(p, svc)[1].id
RepoAnswered(p) == Exchanges(p, "code")[2].id
SameUuid(field, answered) ==
    /\ Truthy(field) /\ Truthy(answered)
    /\ The(field).form = "canon"
    /\ The(field).n = The(answered).n

\* the payload of the AI-assist creation request of p
FixaiBody(p) == Exchanges(p, "fixai")[1].body
\* the payload carries the identifiers of svc when its provisioner succeeded, nulls otherwise
PayloadMatches(p, svc) ==
    CASE svc = "metrics" ->
            IF Succeeded(p, svc)
              THEN SameUuid(FixaiBody(p).metrics_explorer_org_id, OrgAnswered(p, svc))
              ELSE FixaiBody(p).metrics_explorer_org_id = None
      [] svc = "logs" ->
            IF Succeeded(p, svc)
              THEN SameUuid(FixaiBody(p).logs_explorer_org_id, OrgAnswered(p, svc))
              ELSE FixaiBody(p).logs_explorer_org_id = None
      [] svc = "code" ->
            IF Succeeded(p, svc)
              THEN /\ FixaiBody(p).code_parser_org_id = OrgAnswered(p, svc)
                   /\ FixaiBody(p).code_parser_repo_id = RepoAnswered(p)
                   /\ Truthy(OrgAnswered(p, svc)) /\ Truthy(RepoAnswered(p))
              ELSE /\ FixaiBody(p).code_parser_org_id = None
                   /\ FixaiBody(p).code_parser_repo_id = None

Three == {"metrics", "logs", "code"}
AllConfigured(p) == \A s \in Three : Configured(p, s)
OnlyFailure(p, f) == Failed(p, f) /\ \A s \in Three \ {f} : ~Failed(p, s)

\* what C1 asserts of the provisioners and of the payload when f is the only
\* failure among metrics, logs and code
OthersRanAndPayload(p, f) ==
    /\ \A s \in Three \ {f} : Succeeded(p, s)
    /\ Len(Exchanges(p, "fixai")) = 1
    /\ \A s \in Three : PayloadMatches(p, s)

\* C1 as stated: with metrics, logs and code configured and exactly one of them
\* failing, the other two are invoked, AI-assist is invoked with nulls for the
\* failed service and the obtained identifiers of the others, and the error list
\* has exactly one entry, labelled with the failed service.
C1_Original ==
    \A p \in Procs : \A f \in Three :
        (Returned(p) /\ AllConfigured(p) /\ OnlyFailure(p, f)) =>
            /\ OthersRanAndPayload(p, f)
            /\ Len(pw[p].errors) = 1
            /\ pw[p].errors[1][1] = Label(f)

\* C1 amended: as above, but the error list has exactly one entry labelled with
\* the failed service, none labelled with the other two, and one more entry,
\* labelled FixAI, exactly when the AI-assist provisioner failed as well.
C1_OneFailureIsolated ==
    \A p \in Procs : \A f \in Three :
        (Returned(p) /\ AllConfigured(p) /\ OnlyFailure(p, f)) =>
            /\ OthersRanAndPayload(p, f)
            /\ Len(ErrorsLabelled(p, f)) = 1
            /\ \A s \in Three \ {f} : ErrorsLabelled(p, s) = << >>
            /\ Len(pw[p].errors) = (IF Failed(p, "fixai") THEN 2 ELSE 1)
            /\ Failed(p, "fixai") => pw[p].errors[2][1] = Label("fixai")

C1_Witness ==
    \E p \in Procs :
        /\ Returned(p) /\ AllConfigured(p) /\ OnlyFailure(p, "logs")
        /\ Succeeded(p, "metrics") /\ Succeeded(p, "code")
        /\ Failed(p, "fixai")
        /\ FixaiBody(p).logs_explorer_org_id = None
        /\ Truthy(FixaiBody(p).metrics_explorer_org_id)

\* C3: provision_workspace returns for every combination of outcomes, and its
\* error list is, in order, one labelled string per failed provisioner and
\* nothing else; while it runs, the list holds the failures so far and a failed
\* call never ends the invocation.
C3_ErrorsAggregated ==
    \A p \in Procs :
        /\ (Attempting(p) /\ calls[p] # << >> /\ pc[p] # "done") =>
                pw[p].errors = ExpectedErrors(p)
        /\ (Attempting(p) /\ calls[p] # << >> /\ pc[p] = "done" /\ resp[p].code # 500) =>
                /\ pw[p].errors = ExpectedErrors(p)
                /\ Invoked(p, "fixai")
        /\ Returned(p) =>
                /\ \A s \in Services : Len(ErrorsLabelled(p, s)) = (IF Failed(p, s) THEN 1 ELSE 0)
                /\ Result(pw[p]).errors = ExpectedErrors(p)

C3_Witness ==
    \E p \in Procs :
        /\ Returned(p)
        /\ \A s \in Services : Failed(p, s)
        /\ Len(pw[p].errors) = 4

\* C4: when provision_workspace returns it has sent exactly one AI-assist
\* creation request, that request is the last one sent, every configured
\* metrics/logs/code provisioner had finished before it, and its payload carries
\* the identifiers those provisioners obtained and null for a failed or skipped one.
C4_FixaiLast ==
    \A p \in Procs :
        /\ (Attempting(p) /\ Invoked(p, "fixai")) =>
                /\ Len(Exchanges(p, "fixai")) = 1
                /\ calls[p][Len(calls[p])].service = "fixai"
                /\ \A s \in Three :
                        /\ Configured(p, s) => (Failed(p, s) \/ Succeeded(p, s))
                        /\ PayloadMatches(p, s)
        /\ Returned(p) => Invoked(p, "fixai")

C4_Witness ==
    \E p \in Procs :
        /\ Returned(p)
        /\ Succeeded(p, "metrics") /\ OrgAnswered(p, "metrics") # Some(Str(1))
        /\ Failed(p, "logs")
        /\ ~Configured(p, "code")
        /\ SameUuid(FixaiBody(p).metrics_explorer_org_id, OrgAnswered(p, "metrics"))

\* the identifiers of a service in the result of provision_workspace
ResultIds(p, svc) ==
    CASE svc = "metrics" -> {Result(pw[p]).metrics_org_id}
      [] svc = "logs" -> {Result(pw[p]).logs_org_id}
      [] svc = "code" -> {Result(pw[p]).code_parser_org_id, Result(pw[p]).code_parser_repo_id}

\* C5: a service whose configuration is absent is sent no request, has null
\* identifiers in the result and no error entry; an attempt with no
\* configuration at all whose AI-assist creation succeeds ends in status ready.
C5_AbsentSkipped ==
    \A p \in Procs :
        /\ (Attempting(p) /\ pw[p] # NoLocals) =>
                \A s \in Three : ~Configured(p, s) =>
                    /\ ~Invoked(p, s)
                    /\ ResultIds(p, s) = {None}
                    /\ ErrorsLabelled(p, s) = << >>
        /\ (Completed(p) /\ (\A s \in Three : ~Configured(p, s)) /\ ~Failed(p, "fixai")) =>
                /\ The(resp[p].body).status = "ready"
                /\ Get(The(resp[p].body).id) = resp[p].body

C5_Witness ==
    \E p \in Procs :
        /\ Completed(p) /\ kind[p] = "provision"
        /\ \A s \in Three : ~Configured(p, s)
        /\ ~Failed(p, "fixai")
        /\ The(resp[p].body).status = "ready"

\* "; ".join(errors) spelled out for the lists an attempt can produce (at most
\* one entry per provisioner)
SemicolonJoined(errors) ==
    CASE Len(errors) = 1 -> errors[1]
      [] Len(errors) = 2 -> errors[1] \o <<"; ">> \o errors[2]
      [] Len(errors) = 3 -> errors[1] \o <<"; ">> \o errors[2] \o <<"; ">> \o errors[3]
      [] Len(errors) = 4 -> errors[1] \o <<"; ">> \o errors[2] \o <<"; ">> \o errors[3]
                                \o <<"; ">> \o errors[4]

\* C2 as stated: when an attempt completes, the stored row (which the handler
\* reads back for its response) has status ready iff the attempt's error list is
\* empty; when ready its error_message is null; otherwise its status is error
\* and its error_message is the attempt's errors joined by "; ".
C2_StatusFromErrors ==
    \A p \in Procs :
        Completed(p) =>
            LET row == The(resp[p].body) IN
            /\ (row.status = "ready") <=> (pw[p].errors = << >>)
            /\ (row.status = "ready") => (row.error_message = None)
            /\ (pw[p].errors # << >>) =>
                    /\ row.status = "error"
                    /\ row.error_message = Some(SemicolonJoined(pw[p].errors))

Creating(p) == kind[p] \in {"create_workspace", "setup_complete"}

\* C6: a create request (create_workspace or setup_complete) that arrives while
\* a row with its slug exists is answered 409 at once, and that step adds no
\* row, changes no row and sends nothing downstream; the request stays
\* answered and never sends anything.
C6_ConflictOnUsedSlug ==
    [][ \A p \in Procs :
          /\ ( /\ pc[p] = "idle" /\ pc'[p] # "idle" /\ Creating(p)'
               /\ \E r \in workspaces : r.slug = arg'[p].slug )
             => ( /\ pc'[p] = "done" /\ resp'[p] = Error(409)
                  /\ workspaces' = workspaces
                  /\ orgs' = orgs /\ repos' = repos
                  /\ calls'[p] = << >> )
          /\ ( Creating(p) /\ pc[p] = "done" /\ resp[p].code = 409 /\ pc'[p] = "done" )
             => ( resp'[p] = resp[p] /\ calls'[p] = << >> ) ]_vars

C6_Witness ==
    \E p \in Procs :
        /\ Creating(p) /\ pc[p] = "done" /\ resp[p] = Error(409)
        /\ \E r \in workspaces : r.slug = arg[p].slug /\ r.status = "ready"
        /\ calls[p] = << >>

\* C7 as stated: no two rows share a slug, and a create request that lost the
\* race for its slug (it is answered without having created a row) is answered 409.
C7_UniqueSlugAndConflict ==
    /\ \A r1, r2 \in workspaces : r1.slug = r2.slug => r1 = r2
    /\ \A p \in Procs :
          (Creating(p) /\ pc[p] = "done" /\ resp[p].body = None) => resp[p].code = 409

\* C8 as stated: at most one ai_config row without a workspace and at most one
\* row per workspace id.
C8_OneRowPerKey ==
    /\ Cardinality(GlobalRows) <= 1
    /\ \A id \in WsIds : Cardinality(WorkspaceRows(id)) <= 1

Statuses == {"setup", "provisioning", "ready", "error"}

\* C9 as stated: the status of every workspace row is one of setup,
\* provisioning, ready, error.
C9_StatusEnumeration == \A r \in workspaces : r.status \in Statuses

\* C10 as stated: a row is created with status setup; an attempt has committed
\* status provisioning before it sends its first downstream request; a row's
\* status becomes ready or error only in the step in which an attempt, whose
\* last provisioner has returned, completes.
C10_Lifecycle ==
    [][ /\ \A r \in workspaces' : (Get(r.id) = {}) => r.status = "setup"
        /\ \A p \in Procs :
              (Attempting(p)' /\ calls'[p] # << >>) => base'[p].status = "provisioning"
        /\ \A r \in workspaces' :
              ( /\ r.status \in {"ready", "error"}
                /\ Get(r.id) # {}
                /\ The(Get(r.id)).status # r.status )
              => \E p \in Procs :
                    /\ pc[p] = "pw_return" /\ pc'[p] = "done"
                    /\ Invoked(p, "fixai") /\ obj[p].id = r.id ]_vars

\* the link column of a service, and the identifier the service answered to p's
\* creation request as that column holds it
LinkOf(row, svc) ==
    CASE svc = "metrics" -> row.metrics_org_id
      [] svc = "logs" -> row.logs_org_id
      [] svc = "code" -> row.code_parser_org_id
      [] svc = "fixai" -> row.fixai_org_id
AnsweredLink(p, svc) ==
    IF svc = "code" THEN OrgAnswered(p, svc) ELSE Some(UUID(The(OrgAnswered(p, svc))))
CreatedOrgs(p, svc) ==
    SelectSeq(Exchanges(p, svc), LAMBDA c : c.op = "create_org" /\ c.ok)

\* C11: a provision request for an existing workspace starts an attempt whatever
\* the row's status and links are; an attempt that returns has sent one
\* organization-creation request to every configured service and to AI-assist;
\* when it completes, the stored link of every service whose provisioner
\* succeeded is the identifier answered in this attempt, which is none of the
\* links stored before; two attempts never obtain the same organization, and
\* every successful creation request has created one organization downstream.
C11_Reprovision ==
    [][ \A p \in Procs :
          /\ ( pc[p] = "idle" /\ kind'[p] = "provision"
                /\ Get(arg'[p].workspace_id) # {} )
             => pc'[p] = "pv_commit"
          /\ ( Attempting(p)' /\ pc'[p] = "pw_return" )
             => /\ \A s \in Three :
                      Configured(p, s)' =>
                          /\ Invoked(p, s)'
                          /\ Exchanges(p, s)'[1].op = "create_org"
                /\ Len(Exchanges(p, "fixai")') = 1
                /\ Exchanges(p, "fixai")'[1].op = "create_org"
                /\ \A s \in Services :
                      /\ Len(CreatedOrgs(p, s)) <= 1
                      /\ \A q \in Procs \ {p} :
                            (CreatedOrgs(p, s)' # << >> /\ CreatedOrgs(q, s)' # << >>)
                                => CreatedOrgs(p, s)'[1].id # CreatedOrgs(q, s)'[1].id
          /\ ( Attempting(p) /\ pc[p] = "pw_return" /\ pc'[p] = "done"
                /\ resp'[p].code # 500 )
             => \A s \in Services :
                    Succeeded(p, s) =>
                        /\ LinkOf(The(Get(obj[p].id)'), s) = AnsweredLink(p, s)
                        /\ LinkOf(The(Get(obj[p].id)), s) # AnsweredLink(p, s)
                        /\ LinkOf(base[p], s) # AnsweredLink(p, s)
                        /\ The(OrgAnswered(p, s)).n <= orgs[s] ]_vars

\* a second attempt on a workspace that was ready, with links, has completed and
\* the row holds the organizations created by the second attempt
C11_Witness ==
    \E p \in Procs :
        /\ Completed(p) /\ kind[p] = "provision"
        /\ Succeeded(p, "metrics") /\ Succeeded(p, "fixai")
        /\ attempts = 2
        /\ orgs["metrics"] = 2 /\ orgs["fixai"] = 2
        /\ The(Get(obj[p].id)).metrics_org_id = Some(2)
        /\ The(Get(obj[p].id)).fixai_org_id = Some(2)
        /\ The(Get(obj[p].id)).status = "ready"

SubResourceOps == {"add_provider", "set_provider", "submit_repo"}
\* the links of a service in a workspace row
RowLinks(row, svc) ==
    CASE svc = "metrics" -> {row.metrics_org_id}
      [] svc = "logs" -> {row.logs_org_id}
      [] svc = "code" -> {row.code_parser_org_id, row.code_parser_repo_id}

\* C12: a provisioner sends its sub-resource request only after its
\* organization-creation request succeeded, addressed to that organization; if
\* the sub-resource request then fails, the organization stays created, the
\* result has no identifier for the service (for code neither of the two), one
\* labelled error is recorded, no further request (no delete) goes to that
\* service, and the row stored when the attempt completes has no link for it.
C12_TwoSteps ==
    \A p \in Procs :
        Attempting(p) =>
            /\ \A i \in DOMAIN calls[p] : calls[p][i].op \in {"create_org"} \cup SubResourceOps
            /\ \A s \in Three :
                  LET ex == Exchanges(p, s) IN
                  /\ Len(ex) <= 2
                  /\ Len(ex) >= 1 => ex[1].op = "create_org"
                  /\ Len(ex) = 2 =>
                        /\ ex[1].ok
                        /\ ex[2].op \in SubResourceOps
                        /\ ex[2].body.org_id = ex[1].id
                  /\ (Len(ex) = 2 /\ ~ex[2].ok) =>
                        /\ orgs[s] >= The(ex[1].id).n
                        /\ ResultIds(p, s) = {None}
                        /\ ErrorsLabelled(p, s) = << <<Label(s), The(ex[2].error)>> >>
                        /\ Completed(p) =>
                              /\ RowLinks(The(resp[p].body), s) = {None}
                              /\ RowLinks(The(Get(obj[p].id)), s) = {None}
                              /\ The(resp[p].body).status = "error"

\* the code provisioner created its organization, the repository request
\* failed, and the attempt has completed
C12_Witness ==
    \E p \in Procs :
        /\ Completed(p)
        /\ Len(Exchanges(p, "code")) = 2
        /\ Exchanges(p, "code")[1].ok /\ ~Exchanges(p, "code")[2].ok
        /\ orgs["code"] = 1
        /\ Succeeded(p, "metrics")
        /\ The(Get(obj[p].id)).code_parser_org_id = None
        /\ Truthy(The(Get(obj[p].id)).metrics_org_id)

OptionalIdFields ==
    {"code_parser_org_id", "code_parser_repo_id",
     "metrics_explorer_org_id", "logs_explorer_org_id"}
\* the AI-assist creation requests p has sent
FixaiCreations(p) == SelectSeq(calls[p], LAMBDA c : c.service = "fixai" /\ c.op = "create_org")

\* C13: in every AI-assist creation request, every optional identifier field is
\* present and is never the empty string; sent by provision_fixai, the fields of
\* a service whose provisioner was skipped or failed are null; sent by
\* create_fixai_org, the fields of a service the workspace has no link for are null.
C13_NullNotEmpty ==
    \A p \in Procs : \A i \in DOMAIN FixaiCreations(p) :
        LET body == FixaiCreations(p)[i].body IN
        /\ OptionalIdFields \subseteq DOMAIN body
        /\ \A f \in OptionalIdFields : body[f] # Some(EmptyStr)
        /\ Attempting(p) => \A s \in Three : PayloadMatches(p, s)
        /\ kind[p] = "create_fixai_org" =>
              /\ ~TruthyStr(base[p].code_parser_org_id) =>
                    body.code_parser_org_id = None /\ body.code_parser_repo_id = None
              /\ ~Truthy(base[p].metrics_org_id) => body.metrics_explorer_org_id = None
              /\ ~Truthy(base[p].logs_org_id) => body.logs_explorer_org_id = None

\* create_fixai_org has created the organization of a workspace whose only link
\* is the code parser's: the metrics and logs fields were sent as null
C13_Witness ==
    \E p \in Procs :
        /\ kind[p] = "create_fixai_org" /\ pc[p] = "done" /\ resp[p].code = 201
        /\ Len(FixaiCreations(p)) = 1
        /\ TruthyStr(FixaiCreations(p)[1].body.code_parser_org_id)
        /\ FixaiCreations(p)[1].body.metrics_explorer_org_id = None
        /\ FixaiCreations(p)[1].body.logs_explorer_org_id = None
        /\ Truthy(The(Get(obj[p].id)).fixai_org_id)

\* the mapping a workspace's links call for, as JSON values: base URL and
\* identifiers of a linked service, nulls for a service without a link
ExpectedMapping(ws) ==
    [ code_parser_base_url |->
          IF TruthyStr(ws.code_parser_org_id) THEN Some("code_parser_url") ELSE None,
      code_parser_org_id |->
          IF TruthyStr(ws.code_parser_org_id) THEN ws.code_parser_org_id ELSE None,
      code_parser_repo_id |->
          IF TruthyStr(ws.code_parser_org_id) THEN ws.code_parser_repo_id ELSE None,
      metrics_explorer_base_url |->
          IF ws.metrics_org_id # None THEN Some("metrics_explorer_url") ELSE None,
      metrics_explorer_org_id |->
          IF ws.metrics_org_id # None THEN Some(Str(The(ws.metrics_org_id))) ELSE None,
      logs_explorer_base_url |->
          IF ws.logs_org_id # None THEN Some("logs_explorer_url") ELSE None,
      logs_explorer_org_id |->
          IF ws.logs_org_id # None THEN Some(Str(The(ws.logs_org_id))) ELSE None ]

\* the step in which process p runs the task fn at the head of its queue
TaskStep(p, fn) == Running(p, fn) /\ tasks'[p] = Tail(tasks[p])

\* what C14 asserts of one run of the service-mapping sync of process p
SyncSendsMapping(p) ==
    LET ws == Head(tasks[p]).ws IN
    IF ws.fixai_org_id = None
      THEN calls'[p] = calls[p]
      ELSE /\ Len(calls'[p]) = Len(calls[p]) + 1
           /\ SubSeq(calls'[p], 1, Len(calls[p])) = calls[p]
           /\ LET c == calls'[p][Len(calls'[p])] IN
              /\ c.service = "fixai" /\ c.op = "patch_org"
              /\ c.body.org_id = Str(The(ws.fixai_org_id))
              /\ c.body.payload = ExpectedMapping(ws)

\* C14 as stated: a run of the service-mapping sync sends nothing when the
\* workspace has no AI-assist link; otherwise it sends one PATCH to that
\* organization whose payload has, for code, metrics and logs, the base URL and
\* the workspace's identifiers when the service is linked and nulls when it is not.
C14_SyncPayload ==
    [][ \A p \in Procs :
          TaskStep(p, "_sync_service_mappings_to_fixai") => SyncSendsMapping(p) ]_vars

\* the link columns a connect or disconnect of a service writes
ServiceColumns(service) ==
    CASE service = "fixai" -> {"fixai_org_id"}
      [] service = "metrics" -> {"metrics_org_id"}
      [] service = "logs" -> {"logs_org_id"}
      [] service = "code_parser" -> {"code_parser_org_id", "code_parser_repo_id"}
      [] OTHER -> {}
\* the service a connect or disconnect request names
Named(p) == IF kind[p] = "connect_service" THEN arg[p].body.service ELSE arg[p].service
\* the step in which a connect or disconnect of process p commits
LinkCommit(p) ==
    /\ pc[p] \in {"cs_commit", "ds_commit"}
    /\ pc'[p] = "done" /\ resp'[p].code = 200
Syncs(queue) == SelectSeq(queue, LAMBDA t : t.fn = "_sync_service_mappings_to_fixai")

NewPushes(p) ==
    { tasks'[p][i] : i \in { j \in DOMAIN tasks'[p] :
                                /\ j > Len(tasks[p])
                                /\ tasks'[p][j].fn = "_push_ai_config_to_org" } }

\* C16 as stated: a step that stores a new AI-assist link or a new code parser
\* link in a workspace row (a connect, a create_fixai_org or the completion of a
\* provisioning attempt) enqueues a push of the AI configuration to that
\* organization.
C16_PushOnNewLink ==
    [][ \A r \in workspaces' :
          /\ ( /\ r.fixai_org_id # None
                /\ \A old \in Get(r.id) : old.fixai_org_id # r.fixai_org_id )
             => \E p \in Procs : \E t \in NewPushes(p) :
                    t.service = "fixai" /\ UUID(t.org_id) = The(r.fixai_org_id)
          /\ ( /\ r.code_parser_org_id # None
                /\ \A old \in Get(r.id) : old.code_parser_org_id # r.code_parser_org_id )
             => \E p \in Procs : \E t \in NewPushes(p) :
                    t.service = "code_parser" /\ Some(t.org_id) = r.code_parser_org_id
      ]_vars

HasCredential(cfg) == cfg.api_key # None /\ The(cfg.api_key) # << >>
\* the global rows that carry a credential
GlobalCredentials == { c \in GlobalRows : HasCredential(c) }

\* C18 as stated: the push to one newly linked organization reads the global
\* row, whatever workspace rows exist: its select step ends the task without a
\* request when there is no global row or the global row has no credential, and
\* otherwise goes on with the global row; its request step sends one PUT to the
\* organization of the task, carrying credential, URL, model and token limit of
\* the global row.
C18_ReadsGlobalRow ==
    [][ \A p \in Procs :
          /\ ( /\ Running(p, "_push_ai_config_to_org")
                /\ Head(tasks[p]).stage = "select"
                /\ tasks'[p] # tasks[p] )
             => IF GlobalCredentials = {}
                  THEN tasks'[p] = Tail(tasks[p]) /\ calls'[p] = calls[p]
                  ELSE /\ calls'[p] = calls[p]
                       /\ Len(tasks'[p]) = Len(tasks[p])
                       /\ Head(tasks'[p]).stage = "put"
                       /\ Head(tasks'[p]).cfg \subseteq GlobalCredentials
          /\ ( /\ Running(p, "_push_ai_config_to_org")
                /\ Head(tasks[p]).stage = "put"
                /\ tasks'[p] # tasks[p] )
             => /\ tasks'[p] = Tail(tasks[p])
                /\ Len(calls'[p]) = Len(calls[p]) + 1
                /\ LET c == calls'[p][Len(calls'[p])] IN
                   /\ c.op = "put_ai_config"
                   /\ c.service = Head(tasks[p]).service
                   /\ c.body.org_id = Head(tasks[p]).org_id
                   /\ \E g \in GlobalRows :
                         /\ HasCredential(g)
                         /\ c.body.payload =
                               [ claude_api_key |-> The(g.api_key),
                                 claude_bedrock_url |-> The(g.base_url),
                                 claude_model_id |-> The(g.model_id),
                                 claude_max_tokens |-> g.max_tokens ] ]_vars

\* the organizations a configuration row is meant for: the linked AI-assist and
\* code organizations of its workspace, or of every workspace for the global row
LinkedOrgs(w) ==
    { [service |-> "fixai", org_id |-> Str(u)] : u \in w.fixai_org_id }
    \cup { [service |-> "code_parser", org_id |-> t] : t \in w.code_parser_org_id }
Scope(cfg) ==
    IF cfg.workspace_id = None
      THEN workspaces
      ELSE { w \in workspaces : Some(w.id) = cfg.workspace_id }
ExpectedTargets(cfg) == UNION { LinkedOrgs(w) : w \in Scope(cfg) }
Requested(log) == { [service |-> log[i].service, org_id |-> log[i].body.org_id] : i \in DOMAIN log }
SaveStep(p) == pc[p] = "ai_save" /\ pc'[p] = "done" /\ resp'[p].code = 200

\* C17: a save of an AI configuration enqueues one push of the saved row; when
\* the push ends, the organizations that received a PUT are the linked AI-assist
\* and code organizations of the row's workspace (of every workspace for the
\* global row), each once, and no other organization received a request.
C17_PushTargets ==
    [][ \A p \in Procs :
          /\ SaveStep(p)
             => /\ Len(tasks'[p]) = Len(tasks[p]) + 1
                /\ tasks'[p][Len(tasks'[p])].fn = "_push_to_services"
                /\ tasks'[p][Len(tasks'[p])].cfg \in ai_config'
          /\ TaskStep(p, "_push_to_services")
             => /\ Requested(calls'[p]) = ExpectedTargets(Head(tasks[p]).cfg)
                /\ Len(calls'[p]) = Cardinality(ExpectedTargets(Head(tasks[p]).cfg))
          /\ Running(p, "_push_to_services")
             => Requested(calls'[p]) \subseteq ExpectedTargets(Head(tasks[p]).cfg) ]_vars

\* a push of a workspace-scoped row ended with requests to both organizations of
\* its workspace while another workspace has a linked AI-assist organization
C17_Witness ==
    \E p \in Procs :
        /\ kind[p] = "save_workspace_ai_config"
        /\ pc[p] = "done" /\ tasks[p] = << >>
        /\ resp[p].code = 200
        /\ Len(calls[p]) = 2
        /\ \E w \in workspaces :
              Some(w.id) # obj[p].workspace_id /\ Truthy(w.fixai_org_id)

FailedPut(log) == \E i \in DOMAIN log : ~log[i].ok

\* C19: in a push of an AI configuration, a PUT that fails leaves the targets
\* after it in place, and a push in which some PUT failed still ends with a PUT
\* issued to every linked organization of the workspaces it resolved.
C19_FailureIsolated ==
    [][ \A p \in Procs :
          /\ ( /\ Running(p, "_push_to_services")
                /\ Head(tasks[p]).stage = "put"
                /\ Len(calls'[p]) = Len(calls[p]) + 1
                /\ ~calls'[p][Len(calls'[p])].ok
                /\ Len(Head(tasks[p]).targets) > 1 )
             => /\ Len(tasks'[p]) = Len(tasks[p])
                /\ Head(tasks'[p]).targets = Tail(Head(tasks[p]).targets)
          /\ ( TaskStep(p, "_push_to_services") /\ FailedPut(calls'[p]) )
             => \A t \in ExpectedTargets(Head(tasks[p]).cfg) :
                    \E i \in DOMAIN calls'[p] :
                        /\ calls'[p][i].service = t.service
                        /\ calls'[p][i].body.org_id = t.org_id ]_vars

\* a push of the global row to three organizations ended: the first PUT failed
\* and the PUTs to the other organization of the same workspace and to the
\* organization of the other workspace were issued and accepted
C19_Witness ==
    \E p \in Procs :
        /\ kind[p] = "save_ai_config"
        /\ pc[p] = "done" /\ tasks[p] = << >>
        /\ Len(calls[p]) = 3
        /\ ~calls[p][1].ok /\ calls[p][2].ok /\ calls[p][3].ok

BackgroundTasks ==
    {"_push_to_services", "_push_ai_config_to_org", "_sync_service_mappings_to_fixai"}
BackgroundStep(p) ==
    /\ pc[p] = "done" /\ tasks[p] # << >> /\ Head(tasks[p]).fn \in BackgroundTasks
    /\ tasks'[p] # tasks[p]

\* C20: a step of a background operation (the push of an AI configuration, the
\* push to one newly linked organization, the sync of the service mapping),
\* whether its request is accepted or fails, leaves every workspace row, every
\* AI configuration row and the response of every request as they were.
C20_BackgroundFrame ==
    [][ \A p \in Procs :
          BackgroundStep(p)
             => /\ workspaces' = workspaces
                /\ ai_config' = ai_config
                /\ resp' = resp ]_vars

\* a request answered 200 whose background operation ended after a failed request
C20_Witness ==
    \E p \in Procs :
        /\ pc[p] = "done" /\ tasks[p] = << >>
        /\ resp[p].code = 200
        /\ kind[p] \in {"save_workspace_ai_config", "connect_service"}
        /\ FailedPut(calls[p])

\* the remote request a log entry stands for: the step of a provisioner, or the
\* request of a background synchronization to one organization
RequestKey(c) ==
    IF c.op \in {"put_ai_config", "patch_org"}
      THEN <<c.service, c.op, c.body.org_id>>
      ELSE <<c.service, c.op>>

\* C21: within one request (a provisioning attempt, or a request and the
\* background synchronizations it triggered) no remote request is issued twice:
\* each provisioner step and each target organization of a synchronization
\* appears at most once in the log, and a failed request is the only one of its kind.
C21_NoRetry ==
    \A p \in Procs :
        \A i, j \in DOMAIN calls[p] :
            RequestKey(calls[p][i]) = RequestKey(calls[p][j]) => i = j

\* a provisioning attempt ended with three or more requests, one of which failed
\* before the last
C21_Witness ==
    \E p \in Procs :
        /\ pc[p] = "done" /\ tasks[p] = << >>
        /\ kind[p] = "provision"
        /\ Len(calls[p]) >= 3
        /\ \E i \in DOMAIN calls[p] : ~calls[p][i].ok /\ i < Len(calls[p])

\* no handler is between its awaits and no background task is waiting or running
Quiescent == \A p \in Procs : pc[p] \in {"idle", "done"} /\ tasks[p] = << >>
HeldMapping(w) == Holding("fixai", "patch_org", Str(The(w.fixai_org_id)))

\* C22 as stated: whenever the connect and disconnect operations on a workspace
\* with a linked AI-assist organization have ended and every service-mapping
\* sync they enqueued has run, no request having failed at the service, the
\* mapping that organization holds is the mapping of the workspace's current links.
C22_MappingsConverge ==
    Quiescent
      => \A w \in workspaces :
            Truthy(w.fixai_org_id)
              => /\ HeldMapping(w) # {}
                 /\ \A h \in HeldMapping(w) : h.payload = ExpectedMapping(w)

HeldCredential(t) == Holding(t.service, "put_ai_config", t.org_id)

\* C23 as stated: whenever the saves of an AI configuration row have ended and
\* every push they enqueued has run, no request having failed at a service,
\* every linked AI-assist and code organization in the row's target set holds
\* the credential payload of the row as last saved.
C23_CredentialsConverge ==
    Quiescent
      => \A cfg \in ai_config :
            \A t \in ExpectedTargets(cfg) :
                /\ HeldCredential(t) # {}
                /\ \A h \in HeldCredential(t) : h.payload = AiPayload(cfg)

WorkspaceAccess(p) == kind[p] \in {"get_workspace_ai_config", "save_workspace_ai_config"}

\* C24: an access to the AI configuration of a workspace that has no row builds
\* a row for that workspace with the provider, base URL and model of a global
\* row (when one exists) and no credential, and inserts that row and no other;
\* an access that finds the workspace's row creates nothing and goes on with
\* that row; a workspace never has two rows.
C24_LazyWorkspaceRow ==
    /\ [][ \A p \in Procs :
             /\ ( WorkspaceAccess(p) /\ pc[p] = "ai_select_global" /\ pc'[p] = "ai_commit" )
                => /\ obj'[p].workspace_id = Some(arg[p].workspace_id)
                   /\ obj'[p].api_key = None
                   /\ GlobalRows # {}
                        => \E g \in GlobalRows :
                              /\ obj'[p].provider = g.provider
                              /\ obj'[p].base_url = g.base_url
                              /\ obj'[p].model_id = g.model_id
                   /\ ai_config' = ai_config
             /\ ( WorkspaceAccess(p) /\ pc[p] = "ai_commit" /\ pc'[p] # pc[p]
                    /\ ai_config' # ai_config )
                => /\ WorkspaceRows(arg[p].workspace_id) = {}
                   /\ \E row \in ai_config' :
                         /\ ai_config' = ai_config \cup {row}
                         /\ [row EXCEPT !.id = 0] = obj[p]
                         /\ row.api_key = None
                         /\ \A g \in GlobalRows : Truthy(g.api_key) => row.api_key # g.api_key
             /\ ( WorkspaceAccess(p) /\ pc[p] = "ai_select"
                    /\ WorkspaceRows(arg[p].workspace_id) # {} /\ pc'[p] # pc[p] )
                => /\ ai_config' = ai_config
                   /\ obj'[p] \in WorkspaceRows(arg[p].workspace_id)
                   /\ pc'[p] # "ai_commit" ]_vars
    /\ [](\A id \in WsIds : Cardinality(WorkspaceRows(id)) <= 1)

\* a read of a workspace's configuration was answered with the workspace's row,
\* which has no credential and the model of a global row that has a credential
C24_Witness ==
    \E p \in Procs :
        /\ kind[p] = "get_workspace_ai_config"
        /\ pc[p] = "done" /\ resp[p].code = 200
        /\ obj[p] \in WorkspaceRows(arg[p].workspace_id)
        /\ obj[p].api_key = None
        /\ ~The(resp[p].body).api_key_set
        /\ \E g \in GlobalRows : g.api_key = Some(SkEnv)
                                 /\ g.model_id = The(resp[p].body).model_id

AiAnswered(p) ==
    /\ kind[p] \in {"get_ai_config", "save_ai_config",
                    "get_workspace_ai_config", "save_workspace_ai_config"}
    /\ pc[p] = "done" /\ resp[p].code = 200
StoredKey(cfg) == IF cfg.api_key = None THEN << >> ELSE The(cfg.api_key)

\* C25 as stated: the response of a read or a save of an AI configuration has
\* api_key_set true exactly when the stored credential is not empty, has as
\* api_key_preview "..." followed by the last 8 characters of the credential,
\* and its preview never contains the whole credential.
C25_MaskedCredential ==
    \A p \in Procs :
        AiAnswered(p)
          => LET key == StoredKey(obj[p])
                 body == The(resp[p].body) IN
             /\ body.api_key_set <=> key # << >>
             /\ key # << >>
                  => /\ body.api_key_preview = Some(Ellipsis \o Last(key, PreviewLen))
                     /\ \A t \in body.api_key_preview : ~Contains(t, key)

CreateFixaiStart(p) == pc[p] = "idle" /\ kind'[p] = "create_fixai_org"
Refused(p, code) ==
    /\ pc'[p] = "done" /\ resp'[p] = Error(code)
    /\ calls'[p] = << >> /\ tasks'[p] = << >>
    /\ workspaces' = workspaces /\ held' = held /\ orgs' = orgs

\* C26: create_fixai_org on a workspace that has an AI-assist organization
\* linked is answered 409, and on a workspace with no AI-assist, code, metrics
\* or logs link it is answered 400; in both cases no request is sent, the
\* workspace row stays as it was and no background push is enqueued.
C26_CreateRefused ==
    [][ \A p \in Procs :
          CreateFixaiStart(p)
            => \A ws \in Get(arg'[p].workspace_id) :
                  /\ ws.fixai_org_id # None => Refused(p, 409)
                  /\ ( /\ ws.fixai_org_id = None
                       /\ ws.code_parser_org_id = None
                       /\ ws.metrics_org_id = None
                       /\ ws.logs_org_id = None ) => Refused(p, 400) ]_vars

\* a create_fixai_org on a workspace without any link was answered 400
C26_Witness ==
    \E p \in Procs :
        /\ kind[p] = "create_fixai_org" /\ pc[p] = "done" /\ resp[p] = Error(400)
        /\ \A ws \in Get(arg[p].workspace_id) :
              ws.fixai_org_id = None /\ ws.code_parser_org_id = None
              /\ ws.metrics_org_id = None /\ ws.logs_org_id = None

\* the step in which create_fixai_org receives the answer to its creation request
CreateAnswered(p, r) ==
    /\ pc[p] = "cf_post"
    /\ Len(calls'[p]) = Len(calls[p]) + 1
    /\ calls'[p][Len(calls'[p])].error = r.error

\* C27: when the AI-assist service answers the creation request of
\* create_fixai_org with a non-success status, the caller is answered with that
\* status and with the body of the answer in the detail; when the service
\* cannot be reached the caller is answered 502; in both cases the handler
\* assigns nothing (the AI-assist link it read as null stays null), every
\* workspace row stays as it was and no background push is enqueued.
C27_CreateFailurePropagated ==
    [][ \A p \in Procs :
          \A r \in Rejections \cup Unreachable :
              CreateAnswered(p, r)
                => /\ pc'[p] = "done"
                   /\ resp'[p].code = (IF r \in Rejections THEN The(r.status) ELSE 502)
                   /\ resp'[p].body = None
                   /\ r \in Rejections => resp'[p].detail[2] = r.text
                   /\ workspaces' = workspaces
                   /\ obj'[p] = obj[p] /\ obj[p].fixai_org_id = None
                   /\ tasks'[p] = << >> ]_vars

\* a creation request was answered 422 by the service, and the caller was too
C27_Witness ==
    \E p \in Procs :
        /\ kind[p] = "create_fixai_org" /\ pc[p] = "done"
        /\ Len(calls[p]) = 1 /\ calls[p][1].error = Some("status 422")
        /\ resp[p].code = 422

\* ---------------------------------------------------------------------------
\* C28: every operation that references a workspace id with no row (get,
\* delete, connect, disconnect, create-fixai-org, workspace AI-config read and
\* save, the four step saves, provision) answers 404 in its first step, and
\* that step changes no row of either table, sends no downstream request and
\* enqueues no background task.
\* ---------------------------------------------------------------------------
Referencing ==
    { "get_workspace", "delete_workspace", "connect_service", "disconnect_service",
      "create_fixai_org", "get_workspace_ai_config", "save_workspace_ai_config",
      "setup_save_ai_config", "save_metrics_config", "save_logs_config",
      "save_code_config", "provision" }

\* the step in which process p starts a handler on a workspace id without a row
ReferencesAbsent(p) ==
    /\ pc[p] = "idle"
    /\ pc'[p] # "idle"
    /\ kind'[p] \in Referencing
    /\ Get(arg'[p].workspace_id) = {}

C28_AbsentWorkspace ==
    [][ \A p \in Procs :
          ReferencesAbsent(p) =>
              /\ pc'[p] = "done"
              /\ resp'[p] = [code |-> 404, body |-> None]
              /\ workspaces' = workspaces
              /\ ai_config' = ai_config
              /\ calls' = calls
              /\ tasks' = tasks
              /\ UNCHANGED <<global_key, next_id, remote, attempts>> ]_vars

\* the id of a workspace that was deleted is referenced again, here by a read
\* of its AI configuration, and answered with 404 while no row was created
C28_Witness ==
    \E p \in Procs :
        /\ kind[p] = "get_workspace_ai_config"
        /\ pc[p] = "done"
        /\ resp[p].code = 404
        /\ arg[p].workspace_id = 1
        /\ workspaces = {}
        /\ \A c \in ai_config : c.workspace_id = None

\* ---------------------------------------------------------------------------
\* C29: two connect/disconnect operations on one workspace, for different
\* services, both read the row before either commits.
\* ---------------------------------------------------------------------------
\* the stored row of the workspace process p works on
Stored(p) == The(Get(obj[p].id))

\* the same row after the step
StoredAfter(p) == CHOOSE r \in workspaces' : r.id = obj[p].id

\* process p is about to commit a link change on a snapshot that is stale: an
\* operation on another service committed a different link after p read the row
StaleWriter(p) ==
    /\ pc[p] \in {"cs_commit", "ds_commit"}
    /\ Get(obj[p].id) # {}
    /\ \E q \in Procs \ {p} :
          /\ kind[q] \in {"connect_service", "disconnect_service"}
          /\ pc[q] = "done" /\ resp[q].code = 200
          /\ Named(q) # Named(p)
          /\ \E c \in ServiceColumns(Named(q)) : Stored(p)[c] # base[p][c]

SavedMetrics(ws) ==
    IF Truthy(ws.metrics_provider)
      THEN Some([provider |-> The(ws.metrics_provider),
                 keys |-> The(ws.metrics_credentials_encrypted)])
      ELSE None
SavedLogs(ws) ==
    IF Truthy(ws.logs_provider) THEN Some([provider |-> The(ws.logs_provider)]) ELSE None
SavedCode(ws) ==
    IF Truthy(ws.code_repo_path) THEN Some([repo_path |-> The(ws.code_repo_path)]) ELSE None

\* the configurations the caller gave: in the body of setup_complete, or with
\* the step endpoints before provision
Given(p) ==
    IF kind[p] = "setup_complete"
      THEN [metrics |-> arg[p].metrics, logs |-> arg[p].logs, code |-> arg[p].code]
      ELSE [metrics |-> SavedMetrics(obj[p]), logs |-> SavedLogs(obj[p]),
            code |-> SavedCode(obj[p])]

\* the step in which a handler of process p enters provision_workspace
EntersProvisioning(p) ==
    /\ pc[p] \in {"pv_commit", "sc_commit"}
    /\ pw'[p] # pw[p]

C30_StepsEqualWizard ==
    [][ \A p \in Procs :
          EntersProvisioning(p) =>
              /\ pw'[p] = PwStart(Given(p).metrics, Given(p).logs, Given(p).code)
              /\ pc'[p] = Entry(PwStart(Given(p).metrics, Given(p).logs, Given(p).code)) ]_vars

\* ---------------------------------------------------------------------------
\* C31: at the step in which a provisioning attempt completes, the stored status
\* is "ready" if and only if the stored fixai_org_id is set and so is the stored
\* link of every service the attempt was given a configuration for (for code:
\* organization and repository).
\* ---------------------------------------------------------------------------
\* the step in which the attempt of process p commits its result
AttemptCompletes(p) ==
    /\ pc[p] = "pw_return"
    /\ pc'[p] = "done"
    /\ resp'[p].code \in {200, 201}

\* the links the attempt of p had to establish are all set in row r
LinkedAsConfigured(p, r) ==
    /\ Truthy(r.fixai_org_id)
    /\ Truthy(pw[p].metrics) => Truthy(r.metrics_org_id)
    /\ Truthy(pw[p].logs) => Truthy(r.logs_org_id)
    /\ Truthy(pw[p].code) =>
          Truthy(r.code_parser_org_id) /\ Truthy(r.code_parser_repo_id)

C31_ReadyIffLinked ==
    [][ \A p \in Procs :
          AttemptCompletes(p) =>
              (StoredAfter(p).status = "ready" <=> LinkedAsConfigured(p, StoredAfter(p))) ]_vars

\* ---------------------------------------------------------------------------
\* C32: at the step in which a provisioning attempt completes, each of the five
\* stored links equals the attempt's result: null for a service that was not
\* configured or that failed, whatever connect established before or meanwhile.
\* ---------------------------------------------------------------------------
LinkColumns ==
    { "fixai_org_id", "metrics_org_id", "logs_org_id",
      "code_parser_org_id", "code_parser_repo_id" }

C32_LinksAreResult ==
    [][ \A p \in Procs :
          AttemptCompletes(p) =>
              \A c \in LinkColumns : StoredAfter(p)[c] = Result(pw[p])[c] ]_vars

\* ---------------------------------------------------------------------------
\* C33: when the second of two provisioning attempts on one workspace
\* completes, the stored status, error_message and five links are all the
\* ones of that attempt: never part of one attempt and part of the other.
\* ---------------------------------------------------------------------------
AttemptColumns == LinkColumns \cup {"status", "error_message"}

\* another process has completed an attempt on the workspace p works on
OtherAttemptCompleted(p) ==
    \E q \in Procs \ {p} :
        /\ kind[q] \in {"provision", "setup_complete"}
        /\ pc[q] = "done" /\ resp[q].code \in {200, 201}
        /\ obj[q].id = obj[p].id

C33_LastAttemptWins ==
    [][ \A p \in Procs :
          AttemptCompletes(p) /\ OtherAttemptCompleted(p) =>
              \A c \in AttemptColumns :
                  StoredAfter(p)[c] = Apply(obj[p], Result(pw[p]))[c] ]_vars

\* ---------------------------------------------------------------------------
\* C34: the commit of a connect or disconnect changes only the link columns of
\* the named service.  Connect stores the given organization, and for
\* code_parser the given repository or else the repository stored before;
\* disconnect stores null in the columns of the service (both for code_parser).
\* A disconnect of an unknown service is answered 400, changes no row and
\* enqueues nothing.
\* ---------------------------------------------------------------------------
\* the values the named service's columns have after the commit of process p
LinkEffect(p, c) ==
    IF kind[p] = "disconnect_service" THEN None
    ELSE IF c = "code_parser_org_id" THEN Some(arg[p].body.org_id)
    ELSE IF c = "code_parser_repo_id"
      THEN (IF TruthyStr(arg[p].body.repo_id) THEN arg[p].body.repo_id ELSE Stored(p)[c])
    ELSE Some(UUID(arg[p].body.org_id))

\* the step in which a disconnect of an unknown service is handled
UnknownDisconnect(p) ==
    /\ pc[p] = "idle" /\ pc'[p] # "idle"
    /\ kind'[p] = "disconnect_service"
    /\ arg'[p].service \notin LinkServices
    /\ Get(arg'[p].workspace_id) # {}

C34_LinkFrame ==
    [][ \A p \in Procs :
          /\ LinkCommit(p) =>
                \A c \in WsColumns :
                    StoredAfter(p)[c] =
                        IF c \in ServiceColumns(Named(p)) THEN LinkEffect(p, c)
                        ELSE Stored(p)[c]
          /\ UnknownDisconnect(p) =>
                /\ pc'[p] = "done" /\ resp'[p] = [code |-> 400, body |-> None]
                /\ workspaces' = workspaces
                /\ tasks' = tasks ]_vars

\* ---------------------------------------------------------------------------
\* C35: in every reachable state a stored workspace with a code repository
\* link has a code organization link, and the result of the code provisioner
\* holds both identifiers or neither.
\* ---------------------------------------------------------------------------
C35_RepoImpliesOrg ==
    /\ \A r \in workspaces :
          Truthy(r.code_parser_repo_id) => Truthy(r.code_parser_org_id)
    /\ \A p \in Procs :
          "code_parser_repo_id" \in DOMAIN pw[p] =>
              (Truthy(pw[p].code_parser_repo_id) <=> Truthy(pw[p].code_parser_org_id))

\* ---------------------------------------------------------------------------
\* C36: the commit of an AI configuration save (global or of a workspace)
\* stores the request's provider, base URL, model and token limit, and stores
\* the request's credential when it has one; with a null credential the stored
\* credential stays as it was.
\* ---------------------------------------------------------------------------
\* the step in which a save of process p commits
SaveCommit(p) ==
    /\ pc[p] = "ai_save"
    /\ pc'[p] = "done" /\ resp'[p].code = 200

StoredConfig(p) == CHOOSE c \in ai_config : c.id = obj[p].id
StoredConfigAfter(p) == CHOOSE c \in ai_config' : c.id = obj[p].id

C36_SaveFrame ==
    [][ \A p \in Procs :
          SaveCommit(p) =>
              LET body == arg[p].body
                  after == StoredConfigAfter(p) IN
              /\ after.provider = body.provider
              /\ after.base_url = body.base_url
              /\ after.model_id = body.model_id
              /\ after.max_tokens = body.max_tokens
              /\ after.api_key = IF body.api_key # None THEN body.api_key
                                 ELSE StoredConfig(p).api_key ]_vars

\* ---------------------------------------------------------------------------
\* C37: create_fixai_org never replaces an AI-assist link: when its commit
\* stores the new organization, the stored row had no AI-assist link, and no
\* other create_fixai_org request on the workspace has sent a creation request
\* that was answered with success.
\* ---------------------------------------------------------------------------
\* the step in which create_fixai_org of process p links its organization
CreateLinks(p) ==
    /\ pc[p] = "cf_commit"
    /\ pc'[p] = "done" /\ resp'[p].code = 201

\* another request has had an organization created for the same workspace
OtherCreated(p) ==
    \E q \in Procs \ {p} :
        /\ kind[q] = "create_fixai_org"
        /\ arg[q].workspace_id = arg[p].workspace_id
        /\ \E i \in DOMAIN calls[q] :
              calls[q][i].service = "fixai" /\ calls[q][i].op = "create_org" /\ calls[q][i].ok

C37_SingleCreation ==
    [][ \A p \in Procs :
          CreateLinks(p) =>
              /\ Stored(p).fixai_org_id = None
              /\ ~OtherCreated(p) ]_vars

\* C38: every provisioning attempt that has set the status of a workspace to
\* "provisioning" eventually completes and sets the status to "ready" or "error",
\* and no workspace stays in "provisioning" forever, provided every downstream
\* call eventually returns, fails or times out (the fairness of SpecLive).
\* provision_workspace of process p is running: the status has been committed
AttemptRunning(p) ==
    /\ Attempting(p)
    /\ pc[p] \in {"metrics_org", "metrics_provider", "logs_org", "logs_provider",
                  "code_org", "code_repo", "fixai_org", "pw_return"}

\* the attempt of process p has completed and has stored its status
AttemptStored(p) ==
    /\ Completed(p)
    /\ \E r \in workspaces :
          r.id = obj[p].id /\ r.status = obj[p].status /\ r.status \in {"ready", "error"}

InProvisioning(id) == \E r \in workspaces : r.id = id /\ r.status = "provisioning"

C38_AttemptsComplete ==
    /\ \A p \in Procs : AttemptRunning(p) ~> AttemptStored(p)
    /\ \A id \in WsIds : InProvisioning(id) ~> ~InProvisioning(id)

\* ───────────── specifications ─────────────
\* One request at a time and one provisioning attempt, with every input: every
\* combination of configurations, and every answer and failure of the four services.
NextProvision ==
    \E p \in {1} :
        \/ \E slug \in Slugs : attempts = 0 /\ create_workspace_select(p, slug)
        \/ create_workspace_commit(p)
        \/ \E body \in SetupBodies : attempts = 0 /\ setup_complete_select(p, body)
        \/ setup_complete_commit(p)
        \/ \E id \in WsIds : attempts = 0 /\ provision_get(p, id)
        \/ provision_commit(p)
        \/ \E r \in Created("metrics", UuidForms) \cup Failures(ErrorTexts) :
                provision_metrics_org(p, r)
        \/ \E r \in Accepted \cup Failures(ErrorTexts) : provision_metrics_provider(p, r)
        \/ \E r \in Created("logs", UuidForms) \cup Failures(ErrorTexts) :
                provision_logs_org(p, r)
        \/ \E r \in Accepted \cup Failures(ErrorTexts) : provision_logs_provider(p, r)
        \/ \E r \in Created("code", {"raw"}) \cup Failures(ErrorTexts) :
                provision_code_org(p, r)
        \/ \E r \in RepoCreated \cup Failures(ErrorTexts) : provision_code_repo(p, r)
        \/ \E r \in Created("fixai", UuidForms) \cup Failures(ErrorTexts) :
                provision_fixai(p, r)
        \/ provision_finish(p)
        \/ \E id \in WsIds, body \in CreateFixAIOrgBodies : create_fixai_org_get(p, id, body)
        \/ \E r \in FixaiCreated(UuidForms) \cup Rejections \cup Unreachable :
                create_fixai_org_post(p, r)
        \/ create_fixai_org_commit(p)
        \/ push_ai_config_to_org_select(p)
        \/ Respond(p)

SpecProvision == InitFresh /\ [][NextProvision]_vars

\* Concurrent requests of every process slot; the wizard bodies configure at most
\* the metrics service, and a failing call raises one kind of exception.
RaceBodies ==
    [ slug : Slugs, metrics : Opt({[provider |-> "datadog", keys |-> {"api_key", "app_key"}]}),
      logs : {None}, code : {None} ]
RaceFailures == Failures({"status 500"})

Next ==
    \E p \in Procs :
        \/ \E slug \in Slugs : create_workspace_select(p, slug)
        \/ create_workspace_commit(p)
        \/ \E body \in RaceBodies : setup_complete_select(p, body)
        \/ setup_complete_commit(p)
        \/ \E id \in WsIds : provision_get(p, id)
        \/ provision_commit(p)
        \/ \E r \in Created("metrics", {"upper"}) \cup RaceFailures : provision_metrics_org(p, r)
        \/ \E r \in Accepted \cup RaceFailures : provision_metrics_provider(p, r)
        \/ \E r \in Created("fixai", {"upper"}) \cup RaceFailures : provision_fixai(p, r)
        \/ provision_finish(p)
        \/ Respond(p)

Spec == InitFresh /\ [][Next]_vars

\* The AI configuration store: concurrent first reads of the global configuration
\* and of the configuration of a workspace.
NextAI ==
    \E p \in Procs :
        \/ \E slug \in Slugs : create_workspace_select(p, slug)
        \/ create_workspace_commit(p)
        \/ get_ai_config_select(p)
        \/ \E id \in WsIds : get_workspace_ai_config_get(p, id)
        \/ get_workspace_ai_config_select(p)
        \/ get_workspace_ai_config_global(p)
        \/ get_or_create_ai_config_commit(p)
        \/ Respond(p)

SpecAI == Init /\ [][NextAI]_vars

\* Service links and their synchronization.  The store holds a workspace that
\* earlier requests created and linked, and AI configuration rows that earlier
\* reads and saves created; the requests connect, disconnect and create the
\* AI-assist organization, and their background tasks run after the response.
LinkedWorkspaces ==
    { [ Workspace(1, "acme", "active") EXCEPT
          !.fixai_org_id = f, !.metrics_org_id = m,
          !.code_parser_org_id = c, !.code_parser_repo_id = c ] :
        f \in Opt({1}), m \in Opt({1}), c \in Opt({[form |-> "raw", n |-> 1]}) }

SavedGlobal ==
    [ id |-> 2, workspace_id |-> None, provider |-> "claude", api_key |-> Some(SkGlobal),
      base_url |-> Some(""), model_id |-> Some("m1"), max_tokens |-> 4096 ]
SavedWorkspace(id) ==
    [ id |-> 3, workspace_id |-> Some(id), provider |-> "bedrock", api_key |-> Some(SkWs),
      base_url |-> Some("https://proxy"), model_id |-> Some("m2"), max_tokens |-> 1000 ]

InitLinked ==
    /\ \E ws \in LinkedWorkspaces : workspaces = {ws}
    /\ ai_config \in SUBSET {SavedGlobal, SavedWorkspace(1)}
    /\ global_key = FALSE
    /\ env = [CLAUDE_API_KEY |-> {}, CLAUDE_BEDROCK_URL |-> {}, CLAUDE_MODEL_ID |-> {}]
    /\ next_id = 3
    /\ orgs = [ s \in Services |-> 1 ]
    /\ repos = 1
    /\ held = {}
    /\ started = 0
    /\ attempts = 0
    /\ kind = [ p \in Procs |-> "none" ]
    /\ pc = [ p \in Procs |-> "idle" ]
    /\ arg = [ p \in Procs |-> NoLocals ]
    /\ obj = [ p \in Procs |-> NoObject ]
    /\ base = [ p \in Procs |-> NoObject ]
    /\ pw = [ p \in Procs |-> NoLocals ]
    /\ calls = [ p \in Procs |-> << >> ]
    /\ resp = [ p \in Procs |-> NoResponse ]
    /\ tasks = [ p \in Procs |-> << >> ]

NextSync ==
    \E p \in Procs :
        \/ \E body \in ConnectBodies :
                started < MaxSyncRequests /\ connect_service_get(p, 1, body)
        \/ connect_service_commit(p)
        \/ \E service \in LinkServices \cup {"unknown"} :
                started < MaxSyncRequests /\ disconnect_service_get(p, 1, service)
        \/ disconnect_service_commit(p)
        \/ \E body \in CreateFixAIOrgBodies :
                started < MaxSyncRequests /\ create_fixai_org_get(p, 1, body)
        \/ \E r \in FixaiCreated({"upper"}) \cup Rejections \cup Unreachable :
                create_fixai_org_post(p, r)
        \/ create_fixai_org_commit(p)
        \/ \E r \in Accepted \cup RaceFailures : sync_service_mappings_to_fixai(p, r)
        \/ push_ai_config_to_org_select(p)
        \/ \E r \in Accepted \cup RaceFailures : push_ai_config_to_org_put(p, r)
        \/ Respond(p)

SpecSync == InitLinked /\ [][NextSync]_vars

\* ---------------------------------------------------------------------------
\* AI configuration saves over two workspaces with links
\* ---------------------------------------------------------------------------
TwoWorkspaces ==
    { { [ Workspace(1, "acme", "active") EXCEPT
            !.fixai_org_id = f1, !.code_parser_org_id = c1, !.code_parser_repo_id = c1 ],
        [ Workspace(2, "beta", "active") EXCEPT !.fixai_org_id = f2 ] } :
        f1 \in Opt({1}), c1 \in Opt({[form |-> "raw", n |-> 1]}), f2 \in Opt({2}) }

InitPush ==
    /\ workspaces \in TwoWorkspaces
    /\ ai_config \in SUBSET {SavedGlobal, SavedWorkspace(1)}
    /\ global_key = FALSE
    /\ env = [CLAUDE_API_KEY |-> {}, CLAUDE_BEDROCK_URL |-> {}, CLAUDE_MODEL_ID |-> {}]
    /\ next_id = 3
    /\ orgs = [ s \in Services |-> 2 ]
    /\ repos = 1
    /\ held = {}
    /\ started = 0
    /\ attempts = 0
    /\ kind = [ p \in Procs |-> "none" ]
    /\ pc = [ p \in Procs |-> "idle" ]
    /\ arg = [ p \in Procs |-> NoLocals ]
    /\ obj = [ p \in Procs |-> NoObject ]
    /\ base = [ p \in Procs |-> NoObject ]
    /\ pw = [ p \in Procs |-> NoLocals ]
    /\ calls = [ p \in Procs |-> << >> ]
    /\ resp = [ p \in Procs |-> NoResponse ]
    /\ tasks = [ p \in Procs |-> << >> ]

NextPush ==
    \E p \in Procs :
        \/ \E body \in AiBodies :
                started < MaxSyncRequests /\ save_ai_config_select(p, body)
        \/ \E id \in WsIds, body \in AiBodies :
                started < MaxSyncRequests /\ save_workspace_ai_config_get(p, id, body)
        \/ get_workspace_ai_config_select(p)
        \/ get_workspace_ai_config_global(p)
        \/ get_or_create_ai_config_commit(p)
        \/ ai_save_commit(p)
        \/ push_to_services_select(p)
        \/ \E r \in Accepted \cup RaceFailures : push_to_services_put(p, r)
        \/ Respond(p)

SpecPush == InitPush /\ [][NextPush]_vars


\* ---------------------------------------------------------------------------
\* The three background operations together: link requests and AI
\* configuration saves on one workspace
\* ---------------------------------------------------------------------------
NextBackground ==
    \/ NextSync
    \/ \E p \in Procs :
        \/ \E body \in AiBodies :
                started < MaxSyncRequests /\ save_workspace_ai_config_get(p, 1, body)
        \/ get_workspace_ai_config_select(p)
        \/ get_workspace_ai_config_global(p)
        \/ get_or_create_ai_config_commit(p)
        \/ ai_save_commit(p)
        \/ push_to_services_select(p)
        \/ \E r \in Accepted \cup RaceFailures : push_to_services_put(p, r)

SpecBackground == InitLinked /\ [][NextBackground]_vars


\* ---------------------------------------------------------------------------
\* One request at a time on a workspace whose wizard steps were saved: every
\* operation that sends requests to the downstream services
\* ---------------------------------------------------------------------------
ConfiguredWorkspaces ==
    { [ Workspace(1, "acme", "active") EXCEPT
          !.metrics_provider = Some("datadog"),
          !.metrics_credentials_encrypted = Some({"api_key", "app_key"}),
          !.code_repo_path = Some("/srv/repo"),
          !.fixai_org_id = f,
          !.code_parser_org_id = c, !.code_parser_repo_id = c ] :
        f \in Opt({1}), c \in Opt({[form |-> "raw", n |-> 1]}) }

InitConfigured ==
    /\ \E ws \in ConfiguredWorkspaces : workspaces = {ws}
    /\ ai_config \in SUBSET {SavedGlobal}
    /\ global_key = FALSE
    /\ env = [CLAUDE_API_KEY |-> {}, CLAUDE_BEDROCK_URL |-> {}, CLAUDE_MODEL_ID |-> {}]
    /\ next_id = 3
    /\ orgs = [ s \in Services |-> 1 ]
    /\ repos = 1
    /\ held = {}
    /\ started = 0
    /\ attempts = 0
    /\ kind = [ p \in Procs |-> "none" ]
    /\ pc = [ p \in Procs |-> "idle" ]
    /\ arg = [ p \in Procs |-> NoLocals ]
    /\ obj = [ p \in Procs |-> NoObject ]
    /\ base = [ p \in Procs |-> NoObject ]
    /\ pw = [ p \in Procs |-> NoLocals ]
    /\ calls = [ p \in Procs |-> << >> ]
    /\ resp = [ p \in Procs |-> NoResponse ]
    /\ tasks = [ p \in Procs |-> << >> ]

NextSerial ==
    \E p \in {1} :
        \/ started < MaxSyncRequests /\ provision_get(p, 1)
        \/ provision_commit(p)
        \/ \E r \in Created("metrics", {"canon"}) \cup RaceFailures : provision_metrics_org(p, r)
        \/ \E r \in Accepted \cup RaceFailures : provision_metrics_provider(p, r)
        \/ \E r \in Created("code", {"raw"}) \cup RaceFailures : provision_code_org(p, r)
        \/ \E r \in RepoCreated \cup RaceFailures : provision_code_repo(p, r)
        \/ \E r \in Created("fixai", {"canon"}) \cup RaceFailures : provision_fixai(p, r)
        \/ provision_finish(p)
        \/ \E body \in ConnectBodies :
                started < MaxSyncRequests /\ connect_service_get(p, 1, body)
        \/ connect_service_commit(p)
        \/ \E service \in LinkServices :
                started < MaxSyncRequests /\ disconnect_service_get(p, 1, service)
        \/ disconnect_service_commit(p)
        \/ \E body \in CreateFixAIOrgBodies :
                started < MaxSyncRequests /\ create_fixai_org_get(p, 1, body)
        \/ \E r \in FixaiCreated({"canon"}) \cup Rejections : create_fixai_org_post(p, r)
        \/ create_fixai_org_commit(p)
        \/ \E body \in AiBodies :
                started < MaxSyncRequests /\ save_workspace_ai_config_get(p, 1, body)
        \/ get_workspace_ai_config_select(p)
        \/ get_workspace_ai_config_global(p)
        \/ get_or_create_ai_config_commit(p)
        \/ ai_save_commit(p)
        \/ \E r \in Accepted \cup RaceFailures : sync_service_mappings_to_fixai(p, r)
        \/ push_ai_config_to_org_select(p)
        \/ \E r \in Accepted \cup RaceFailures : push_ai_config_to_org_put(p, r)
        \/ push_to_services_select(p)
        \/ \E r \in Accepted \cup RaceFailures : push_to_services_put(p, r)
        \/ Respond(p)

SpecSerial == InitConfigured /\ [][NextSerial]_vars


\* ---------------------------------------------------------------------------
\* Service links of a workspace whose AI-assist organization holds the mapping
\* of its links; the AI-assist service accepts every request
\* ---------------------------------------------------------------------------
MappedWorkspaces ==
    { [ Workspace(1, "acme", "active") EXCEPT
          !.fixai_org_id = Some(1), !.metrics_org_id = m,
          !.code_parser_org_id = c, !.code_parser_repo_id = c ] :
        m \in Opt({1}), c \in Opt({[form |-> "raw", n |-> 1]}) }

InitMapped ==
    /\ \E ws \in MappedWorkspaces :
          /\ workspaces = {ws}
          /\ held = { [service |-> "fixai", op |-> "patch_org", org_id |-> Str(1),
                       payload |-> ExpectedMapping(ws)] }
    /\ ai_config = {}
    /\ global_key = FALSE
    /\ env = [CLAUDE_API_KEY |-> {}, CLAUDE_BEDROCK_URL |-> {}, CLAUDE_MODEL_ID |-> {}]
    /\ next_id = 1
    /\ orgs = [ s \in Services |-> 1 ]
    /\ repos = 1
    /\ started = 0
    /\ attempts = 0
    /\ kind = [ p \in Procs |-> "none" ]
    /\ pc = [ p \in Procs |-> "idle" ]
    /\ arg = [ p \in Procs |-> NoLocals ]
    /\ obj = [ p \in Procs |-> NoObject ]
    /\ base = [ p \in Procs |-> NoObject ]
    /\ pw = [ p \in Procs |-> NoLocals ]
    /\ calls = [ p \in Procs |-> << >> ]
    /\ resp = [ p \in Procs |-> NoResponse ]
    /\ tasks = [ p \in Procs |-> << >> ]

NextMappings ==
    \E p \in Procs :
        \/ \E body \in { b \in ConnectBodies : b.service # "fixai" } :
                connect_service_get(p, 1, body)
        \/ connect_service_commit(p)
        \/ \E service \in LinkServices \ {"fixai"} : disconnect_service_get(p, 1, service)
        \/ disconnect_service_commit(p)
        \/ \E r \in Accepted : sync_service_mappings_to_fixai(p, r)
        \/ push_ai_config_to_org_select(p)
        \/ Respond(p)

SpecMappings == InitMapped /\ [][NextMappings]_vars


\* ---------------------------------------------------------------------------
\* Saves of the AI configuration row of one workspace whose organizations hold
\* the row's payload; the services accept every request
\* ---------------------------------------------------------------------------
InitCredentials ==
    /\ \E ws \in LinkedWorkspaces :
          /\ workspaces = {ws}
          /\ held = { [service |-> t.service, op |-> "put_ai_config", org_id |-> t.org_id,
                       payload |-> AiPayload(SavedWorkspace(1))] : t \in LinkedOrgs(ws) }
    /\ ai_config = {SavedWorkspace(1)}
    /\ global_key = FALSE
    /\ env = [CLAUDE_API_KEY |-> {}, CLAUDE_BEDROCK_URL |-> {}, CLAUDE_MODEL_ID |-> {}]
    /\ next_id = 3
    /\ orgs = [ s \in Services |-> 1 ]
    /\ repos = 1
    /\ started = 0
    /\ attempts = 0
    /\ kind = [ p \in Procs |-> "none" ]
    /\ pc = [ p \in Procs |-> "idle" ]
    /\ arg = [ p \in Procs |-> NoLocals ]
    /\ obj = [ p \in Procs |-> NoObject ]
    /\ base = [ p \in Procs |-> NoObject ]
    /\ pw = [ p \in Procs |-> NoLocals ]
    /\ calls = [ p \in Procs |-> << >> ]
    /\ resp = [ p \in Procs |-> NoResponse ]
    /\ tasks = [ p \in Procs |-> << >> ]

NextCredentials ==
    \E p \in Procs :
        \/ \E body \in AiBodies : save_workspace_ai_config_get(p, 1, body)
        \/ get_workspace_ai_config_select(p)
        \/ ai_save_commit(p)
        \/ push_to_services_select(p)
        \/ \E r \in Accepted : push_to_services_put(p, r)
        \/ Respond(p)

SpecCredentials == InitCredentials /\ [][NextCredentials]_vars


\* ---------------------------------------------------------------------------
\* Reads and saves of the global AI configuration with every credential
\* ---------------------------------------------------------------------------
MaskBodies ==
    { [ provider |-> "claude", api_key |-> k, base_url |-> None,
        model_id |-> Some("m3"), max_tokens |-> 2000 ] : k \in Opt(Keys) }

InitMask ==
    /\ workspaces = {}
    /\ \E k \in Opt(Keys) : ai_config = { [SavedGlobal EXCEPT !.api_key = k] }
    /\ global_key = FALSE
    /\ env = [CLAUDE_API_KEY |-> {}, CLAUDE_BEDROCK_URL |-> {}, CLAUDE_MODEL_ID |-> {}]
    /\ next_id = 3
    /\ orgs = [ s \in Services |-> 0 ]
    /\ repos = 0
    /\ held = {}
    /\ started = 0
    /\ attempts = 0
    /\ kind = [ p \in Procs |-> "none" ]
    /\ pc = [ p \in Procs |-> "idle" ]
    /\ arg = [ p \in Procs |-> NoLocals ]
    /\ obj = [ p \in Procs |-> NoObject ]
    /\ base = [ p \in Procs |-> NoObject ]
    /\ pw = [ p \in Procs |-> NoLocals ]
    /\ calls = [ p \in Procs |-> << >> ]
    /\ resp = [ p \in Procs |-> NoResponse ]
    /\ tasks = [ p \in Procs |-> << >> ]

NextMask ==
    \E p \in {1} :
        \/ started < MaxSyncRequests /\ get_ai_config_select(p)
        \/ \E body \in MaskBodies : started < MaxSyncRequests /\ save_ai_config_select(p, body)
        \/ ai_save_commit(p)
        \/ push_to_services_select(p)
        \/ Respond(p)

SpecMask == InitMask /\ [][NextMask]_vars

\* ---------------------------------------------------------------------------
\* One request at a time, each naming a workspace id in its path: the stored
\* workspace, or an id without a row; the workspace can be deleted
\* ---------------------------------------------------------------------------
InitStored ==
    /\ \E ws \in ConfiguredWorkspaces : workspaces = {ws}
    /\ ai_config \in SUBSET {SavedGlobal, SavedWorkspace(1)}
    /\ global_key = FALSE
    /\ env = [CLAUDE_API_KEY |-> {}, CLAUDE_BEDROCK_URL |-> {}, CLAUDE_MODEL_ID |-> {}]
    /\ next_id = 3
    /\ orgs = [ s \in Services |-> 1 ]
    /\ repos = 1
    /\ held = {}
    /\ started = 0
    /\ attempts = 0
    /\ kind = [ p \in Procs |-> "none" ]
    /\ pc = [ p \in Procs |-> "idle" ]
    /\ arg = [ p \in Procs |-> NoLocals ]
    /\ obj = [ p \in Procs |-> NoObject ]
    /\ base = [ p \in Procs |-> NoObject ]
    /\ pw = [ p \in Procs |-> NoLocals ]
    /\ calls = [ p \in Procs |-> << >> ]
    /\ resp = [ p \in Procs |-> NoResponse ]
    /\ tasks = [ p \in Procs |-> << >> ]

NextPaths ==
    \E p \in {1}, id \in WsIds :
        \/ started < MaxSyncRequests /\ get_workspace(p, id)
        \/ started < MaxSyncRequests /\ delete_workspace_get(p, id)
        \/ delete_workspace_commit(p)
        \/ \E body \in LlmConfigs :
                started < MaxSyncRequests /\ save_llm_config_get(p, id, body)
        \/ \E body \in MetricsConfigs :
                started < MaxSyncRequests /\ save_metrics_config_get(p, id, body)
        \/ \E body \in LogsConfigs :
                started < MaxSyncRequests /\ save_logs_config_get(p, id, body)
        \/ \E body \in CodeConfigs :
                started < MaxSyncRequests /\ save_code_config_get(p, id, body)
        \/ save_config_commit(p)
        \/ started < MaxSyncRequests /\ provision_get(p, id)
        \/ provision_commit(p)
        \/ \E r \in Created("metrics", {"canon"}) \cup RaceFailures : provision_metrics_org(p, r)
        \/ \E r \in Accepted \cup RaceFailures : provision_metrics_provider(p, r)
        \/ \E r \in Created("logs", {"canon"}) \cup RaceFailures : provision_logs_org(p, r)
        \/ \E r \in Accepted \cup RaceFailures : provision_logs_provider(p, r)
        \/ \E r \in Created("code", {"raw"}) \cup RaceFailures : provision_code_org(p, r)
        \/ \E r \in RepoCreated \cup RaceFailures : provision_code_repo(p, r)
        \/ \E r \in Created("fixai", {"canon"}) \cup RaceFailures : provision_fixai(p, r)
        \/ provision_finish(p)
        \/ \E body \in ConnectBodies :
                started < MaxSyncRequests /\ connect_service_get(p, id, body)
        \/ connect_service_commit(p)
        \/ \E service \in LinkServices :
                started < MaxSyncRequests /\ disconnect_service_get(p, id, service)
        \/ disconnect_service_commit(p)
        \/ \E body \in CreateFixAIOrgBodies :
                started < MaxSyncRequests /\ create_fixai_org_get(p, id, body)
        \/ \E r \in FixaiCreated({"canon"}) \cup Rejections : create_fixai_org_post(p, r)
        \/ create_fixai_org_commit(p)
        \/ started < MaxSyncRequests /\ get_workspace_ai_config_get(p, id)
        \/ \E body \in AiBodies :
                started < MaxSyncRequests /\ save_workspace_ai_config_get(p, id, body)
        \/ get_workspace_ai_config_select(p)
        \/ get_workspace_ai_config_global(p)
        \/ get_or_create_ai_config_commit(p)
        \/ ai_save_commit(p)
        \/ \E r \in Accepted \cup RaceFailures : sync_service_mappings_to_fixai(p, r)
        \/ push_ai_config_to_org_select(p)
        \/ \E r \in Accepted \cup RaceFailures : push_ai_config_to_org_put(p, r)
        \/ push_to_services_select(p)
        \/ \E r \in Accepted \cup RaceFailures : push_to_services_put(p, r)
        \/ Respond(p)

SpecPaths == InitStored /\ [][NextPaths]_vars

\* ---------------------------------------------------------------------------
\* The two ways of setting a workspace up: the step endpoints and provision on
\* a created workspace, and setup_complete
\* ---------------------------------------------------------------------------
\* the rows create_workspace and the step endpoints leave
StepRow(m, l, c) ==
    LET created == Workspace(1, "acme", "active")
        a == IF Truthy(m) THEN AssignMetrics(created, The(m)) ELSE created
        b == IF Truthy(l) THEN AssignLogs(a, The(l)) ELSE a
    IN  IF Truthy(c) THEN AssignCode(b, The(c)) ELSE b
SavedWorkspaces ==
    { StepRow(m, l, c) :
        m \in Opt(MetricsConfigs), l \in Opt(LogsConfigs), c \in Opt(CodeConfigs) }

InitSteps ==
    /\ \E ws \in SavedWorkspaces : workspaces = {ws}
    /\ ai_config = {}
    /\ global_key = FALSE
    /\ env = [CLAUDE_API_KEY |-> {}, CLAUDE_BEDROCK_URL |-> {}, CLAUDE_MODEL_ID |-> {}]
    /\ next_id = 1
    /\ orgs = [ s \in Services |-> 0 ]
    /\ repos = 0
    /\ held = {}
    /\ started = 0
    /\ attempts = 0
    /\ kind = [ p \in Procs |-> "none" ]
    /\ pc = [ p \in Procs |-> "idle" ]
    /\ arg = [ p \in Procs |-> NoLocals ]
    /\ obj = [ p \in Procs |-> NoObject ]
    /\ base = [ p \in Procs |-> NoObject ]
    /\ pw = [ p \in Procs |-> NoLocals ]
    /\ calls = [ p \in Procs |-> << >> ]
    /\ resp = [ p \in Procs |-> NoResponse ]
    /\ tasks = [ p \in Procs |-> << >> ]

NextSteps ==
    \E p \in {1} :
        \/ \E body \in LlmConfigs :
                started < MaxSyncRequests /\ save_llm_config_get(p, 1, body)
        \/ \E body \in MetricsConfigs :
                started < MaxSyncRequests /\ save_metrics_config_get(p, 1, body)
        \/ \E body \in LogsConfigs :
                started < MaxSyncRequests /\ save_logs_config_get(p, 1, body)
        \/ \E body \in CodeConfigs :
                started < MaxSyncRequests /\ save_code_config_get(p, 1, body)
        \/ save_config_commit(p)
        \/ started < MaxSyncRequests /\ provision_get(p, 1)
        \/ provision_commit(p)
        \/ \E body \in SetupBodies :
                started < MaxSyncRequests /\ setup_complete_select(p, body)
        \/ setup_complete_commit(p)
        \/ \E r \in Created("metrics", {"canon"}) \cup RaceFailures : provision_metrics_org(p, r)
        \/ \E r \in Accepted \cup RaceFailures : provision_metrics_provider(p, r)
        \/ \E r \in Created("logs", {"canon"}) \cup RaceFailures : provision_logs_org(p, r)
        \/ \E r \in Accepted \cup RaceFailures : provision_logs_provider(p, r)
        \/ \E r \in Created("code", {"raw"}) \cup RaceFailures : provision_code_org(p, r)
        \/ \E r \in RepoCreated \cup RaceFailures : provision_code_repo(p, r)
        \/ \E r \in Created("fixai", {"canon"}) \cup RaceFailures : provision_fixai(p, r)
        \/ provision_finish(p)
        \/ Respond(p)

SpecSteps == InitSteps /\ [][NextSteps]_vars

\* ---------------------------------------------------------------------------
\* Provisioning attempts on a stored workspace while links are connected and
\* disconnected: the attempt provisions the code service and AI-assist
\* ---------------------------------------------------------------------------
\* rows that create_workspace, save_code_config and connect_service leave: a
\* code organization may be linked without a repository
OverlapWorkspaces ==
    { [ AssignCode(Workspace(1, "acme", "active"), [repo_path |-> "/srv/repo"]) EXCEPT
          !.metrics_org_id = m, !.code_parser_org_id = c[1], !.code_parser_repo_id = c[2] ] :
        m \in Opt({1}),
        c \in { <<None, None>>,
                <<Some([form |-> "raw", n |-> 1]), None>>,
                <<Some([form |-> "raw", n |-> 1]), Some([form |-> "raw", n |-> 1])>> } }

InitOverlap ==
    /\ \E ws \in OverlapWorkspaces : workspaces = {ws}
    /\ ai_config = {SavedGlobal}
    /\ global_key = FALSE
    /\ env = [CLAUDE_API_KEY |-> {}, CLAUDE_BEDROCK_URL |-> {}, CLAUDE_MODEL_ID |-> {}]
    /\ next_id = 3
    /\ orgs = [ s \in Services |-> 1 ]
    /\ repos = 1
    /\ held = {}
    /\ started = 0
    /\ attempts = 0
    /\ kind = [ p \in Procs |-> "none" ]
    /\ pc = [ p \in Procs |-> "idle" ]
    /\ arg = [ p \in Procs |-> NoLocals ]
    /\ obj = [ p \in Procs |-> NoObject ]
    /\ base = [ p \in Procs |-> NoObject ]
    /\ pw = [ p \in Procs |-> NoLocals ]
    /\ calls = [ p \in Procs |-> << >> ]
    /\ resp = [ p \in Procs |-> NoResponse ]
    /\ tasks = [ p \in Procs |-> << >> ]

NextOverlap ==
    \E p \in Procs :
        \/ started < MaxSyncRequests /\ provision_get(p, 1)
        \/ provision_commit(p)
        \/ \E r \in Created("code", {"raw"}) \cup RaceFailures : provision_code_org(p, r)
        \/ \E r \in RepoCreated \cup RaceFailures : provision_code_repo(p, r)
        \/ \E r \in Created("fixai", {"canon"}) \cup RaceFailures : provision_fixai(p, r)
        \/ provision_finish(p)
        \/ \E body \in ConnectBodies :
                started < MaxSyncRequests /\ connect_service_get(p, 1, body)
        \/ connect_service_commit(p)
        \/ \E service \in LinkServices :
                started < MaxSyncRequests /\ disconnect_service_get(p, 1, service)
        \/ disconnect_service_commit(p)
        \/ \E r \in Accepted : sync_service_mappings_to_fixai(p, r)
        \/ push_ai_config_to_org_select(p)
        \/ \E r \in Accepted : push_ai_config_to_org_put(p, r)
        \/ Respond(p)

SpecOverlap == InitOverlap /\ [][NextOverlap]_vars

\* ---------------------------------------------------------------------------
\* Concurrent saves of the AI configuration rows, with bodies that repeat the
\* stored values and bodies that change them
\* ---------------------------------------------------------------------------
\* AIConfigUpdate bodies: the values of the stored workspace row, or new ones
SaveBodies ==
    AiBodies
    \cup { [ provider |-> SavedWorkspace(1).provider, api_key |-> k,
             base_url |-> SavedWorkspace(1).base_url,
             model_id |-> SavedWorkspace(1).model_id,
             max_tokens |-> SavedWorkspace(1).max_tokens ] : k \in {None, Some(SkNew)} }

InitSaves ==
    /\ \E ws \in LinkedWorkspaces : workspaces = {ws}
    /\ ai_config = {SavedGlobal, SavedWorkspace(1)}
    /\ global_key = FALSE
    /\ env = [CLAUDE_API_KEY |-> {}, CLAUDE_BEDROCK_URL |-> {}, CLAUDE_MODEL_ID |-> {}]
    /\ next_id = 3
    /\ orgs = [ s \in Services |-> 1 ]
    /\ repos = 1
    /\ held = {}
    /\ started = 0
    /\ attempts = 0
    /\ kind = [ p \in Procs |-> "none" ]
    /\ pc = [ p \in Procs |-> "idle" ]
    /\ arg = [ p \in Procs |-> NoLocals ]
    /\ obj = [ p \in Procs |-> NoObject ]
    /\ base = [ p \in Procs |-> NoObject ]
    /\ pw = [ p \in Procs |-> NoLocals ]
    /\ calls = [ p \in Procs |-> << >> ]
    /\ resp = [ p \in Procs |-> NoResponse ]
    /\ tasks = [ p \in Procs |-> << >> ]

NextSaves ==
    \E p \in Procs :
        \/ \E body \in SaveBodies :
                started < MaxSyncRequests /\ save_ai_config_select(p, body)
        \/ \E body \in SaveBodies :
                started < MaxSyncRequests /\ save_workspace_ai_config_get(p, 1, body)
        \/ get_workspace_ai_config_select(p)
        \/ ai_save_commit(p)
        \/ push_to_services_select(p)
        \/ \E r \in Accepted : push_to_services_put(p, r)
        \/ Respond(p)

SpecSaves == InitSaves /\ [][NextSaves]_vars

\* Provisioning attempts of workspaces with a code configuration, overlapping
\* with each other and with the deletion of the workspace.  The code service
\* answers with an identifier of any length.  Every call of an attempt returns
\* or raises (httpx timeout 30 s), and the event loop resumes the coroutine:
\* the steps of a request that has started are weakly fair; the arrival of
\* requests is not.
LiveBodies ==
    [ slug : {"acme"}, metrics : {None}, logs : {None},
      code : Opt({[repo_path |-> "/srv/repo"]}) ]
LiveFailures == Failures({"status 500"})

LiveStep(p) ==
    \/ setup_complete_commit(p)
    \/ provision_commit(p)
    \/ \E r \in Created("code", {"raw", "long"}) \cup LiveFailures : provision_code_org(p, r)
    \/ \E r \in RepoCreated \cup LiveFailures : provision_code_repo(p, r)
    \/ \E r \in Created("fixai", {"canon"}) \cup LiveFailures : provision_fixai(p, r)
    \/ provision_finish(p)
    \/ delete_workspace_commit(p)

NextLive ==
    \E p \in Procs :
        \/ \E body \in LiveBodies : started < MaxSyncRequests /\ setup_complete_select(p, body)
        \/ \E id \in WsIds : started < MaxSyncRequests /\ provision_get(p, id)
        \/ \E id \in WsIds : started < MaxSyncRequests /\ delete_workspace_get(p, id)
        \/ LiveStep(p)
        \/ Respond(p)

SpecLive == InitFresh /\ [][NextLive]_vars /\ \A p \in Procs : WF_vars(LiveStep(p))
====
